---- MODULE Spec2Model ----
(***************************************************************************)
(* Model of app.py (press-release generator): model invocation with        *)
(* ordered fallback (generate_press_release), the output normalizer        *)
(* (parse_model_output and its nested _to_plain_text), fence stripping,     *)
(* the prompt builder, the two exports and the Streamlit session of main.  *)
(*                                                                         *)
(* Python strings are sequences of one-character strings.  The printable  *)
(* ASCII characters, the line feed, the tab and the carriage return stand  *)
(* for themselves; every other character is written by its code point in   *)
(* capital hexadecimal digits, four at least ("U+2022" is the bullet,       *)
(* "U+000C" the form feed, "U+1F600" a character beyond the basic plane),   *)
(* and so is the backtick, "U+0060".                                       *)
(***************************************************************************)
EXTENDS Integers, Sequences, FiniteSets, TLC

VARIABLES
    model_names,    \* generate_press_release: the model_names argument
    next_call,      \* index of the next candidate in the nested loops' order
    calls,          \* log of the network calls made (name, outcome)
    last_error,     \* generate_press_release: last_error
    result,         \* how generate_press_release ended (or "running")
    raw_text,       \* parse_model_output: the raw_text argument
    parsed,         \* how parse_model_output ended (or "pending")
    frames_left,    \* the nested calls the interpreter still allows when
                    \* parse_model_output is called: the recursion limit
                    \* less the depth of the stack
    re_cached,      \* the cache of re holds the compiled patterns of
                    \* _to_plain_text: a call of it has returned before
    plain_in,       \* _to_plain_text: the value argument
    plain_out,      \* successive results of _to_plain_text on plain_in
    fence_in,       \* _strip_code_fences: the text argument
    fence_out,      \* <<>>, then the one result of _strip_code_fences
    prompt_args,    \* build_prompt: its arguments
    prompt,         \* <<>>, then the one result of build_prompt
    export_args,    \* the article and the resolved images given to the exports
    exports,        \* <<>>, then what the two exports emitted
    session_state,  \* st.session_state
    secrets,        \* the auth section of st.secrets
    request,        \* what every run gets from outside: the admin query
                    \* parameter, the uploaded files and the two
                    \* environment variables of the key
    last_run        \* what the last run of the script did

vars == <<model_names, next_call, calls, last_error, result,
          raw_text, parsed, frames_left, re_cached, plain_in, plain_out,
          fence_in, fence_out, prompt_args, prompt, export_args, exports,
          session_state, secrets, request, last_run>>

invoke_vars == <<model_names, next_call, calls, last_error, result>>
parse_vars == <<raw_text, parsed, frames_left, re_cached>>
plain_vars == <<plain_in, plain_out>>
app_vars == <<fence_in, fence_out, prompt_args, prompt, export_args, exports,
              session_state, secrets, request, last_run>>

(***************************************************************************)
(* Bounds                                                                  *)
(***************************************************************************)
MaxModelNames == 2

(***************************************************************************)
(* String helpers (Python str methods)                                     *)
(***************************************************************************)
EMPTY == <<>>

\* characters str.strip() and the regex class \s of a str pattern treat as
\* whitespace (the characters c with c.isspace()): the ASCII blanks, the
\* separators U+001C..U+001F, NEL, the no-break space and the Unicode
\* spaces up to the ideographic space U+3000
WHITESPACE ==
    {" ", "\n", "\t", "\r", "U+000B", "U+000C", "U+001C", "U+001D", "U+001E",
     "U+001F", "U+0085", "U+00A0", "U+1680", "U+2000", "U+2001", "U+2002",
     "U+2003", "U+2004", "U+2005", "U+2006", "U+2007", "U+2008", "U+2009",
     "U+200A", "U+2028", "U+2029", "U+202F", "U+205F", "U+3000"}

StartsWithAt(s, i, p) ==
    /\ i + Len(p) - 1 <= Len(s)
    /\ \A k \in 1..Len(p) : s[i + k - 1] = p[k]

\* str.startswith
StartsWith(s, p) == StartsWithAt(s, 1, p)

\* str.endswith
EndsWith(s, p) ==
    /\ Len(p) <= Len(s)
    /\ \A k \in 1..Len(p) : s[Len(s) - Len(p) + k] = p[k]

\* s[i-1:] in Python terms (1-based i)
Drop(s, i) == SubSeq(s, i, Len(s))

\* str.strip()
Strip(s) ==
    LET keep == {i \in 1..Len(s) : s[i] \notin WHITESPACE}
    IN  IF keep = {} THEN EMPTY
        ELSE SubSeq(s, CHOOSE i \in keep : \A j \in keep : i <= j,
                       CHOOSE i \in keep : \A j \in keep : i >= j)

RECURSIVE Join(_, _)
\* sep.join(parts)
Join(parts, sep) ==
    IF parts = <<>> THEN EMPTY
    ELSE IF Len(parts) = 1 THEN parts[1]
    ELSE parts[1] \o sep \o Join(Tail(parts), sep)

RECURSIVE Flatten(_)
Flatten(seqs) ==
    IF seqs = <<>> THEN <<>> ELSE Head(seqs) \o Flatten(Tail(seqs))

SeqsUpTo(S, n) == UNION {[1..k -> S] : k \in 0..n}

(***************************************************************************)
(* Model invocation: generate_press_release                                *)
(***************************************************************************)
MODELS_PREFIX == <<"m", "o", "d", "e", "l", "s", "/">>

\* the last entry of MODEL_OPTIONS, "Gemini Pro (Latest Alias)" aside: the
\* "Gemini Flash (Latest Alias)" list
GEMINI_FLASH_LATEST ==
    << <<"m", "o", "d", "e", "l", "s", "/", "g", "e", "m", "i", "n", "i", "-",
         "f", "l", "a", "s", "h", "-", "l", "a", "t", "e", "s", "t">>,
       <<"g", "e", "m", "i", "n", "i", "-",
         "f", "l", "a", "s", "h", "-", "l", "a", "t", "e", "s", "t">> >>

NAME_A == <<"a">>
NAME_B == <<"b">>
NAME_MODELS_A == MODELS_PREFIX \o NAME_A
NAME_MODELS_B == MODELS_PREFIX \o NAME_B

\* model names a caller may pass
ModelNameSet == {NAME_MODELS_A, NAME_A, NAME_MODELS_B, NAME_B, EMPTY, MODELS_PREFIX}

RECURSIVE OrderedUnique(_, _)
\* the "preserve order without duplicates" loop of _candidate_model_names
OrderedUnique(candidates, ordered) ==
    IF candidates = <<>> THEN ordered
    ELSE LET name == Head(candidates)
         IN  IF name # EMPTY /\ \A k \in 1..Len(ordered) : ordered[k] # name
             THEN OrderedUnique(Tail(candidates), Append(ordered, name))
             ELSE OrderedUnique(Tail(candidates), ordered)

candidate_model_names(model_name) ==
    LET candidates ==
            IF StartsWith(model_name, MODELS_PREFIX)
            THEN <<model_name, Drop(model_name, Len(MODELS_PREFIX) + 1)>>
            ELSE <<model_name, MODELS_PREFIX \o model_name>>
    IN  OrderedUnique(candidates, <<>>)

\* the order in which the nested for loops visit candidate names
Attempts(names) ==
    Flatten([g \in 1..Len(names) |-> candidate_model_names(names[g])])

\* response objects of the generation endpoint: an optional aggregated text
\* and a list of candidates, each with an optional content holding parts
NoContent == [present |-> FALSE, parts |-> <<>>]
Content(parts) == [present |-> TRUE, parts |-> parts]
Response(has_text, text, candidates) ==
    [has_text |-> has_text, text |-> text, candidates |-> candidates]

TEXT_ONE == <<"o", "k", "1">>
TEXT_TWO == <<"o", "k", "2">>
PART_P == <<"p">>
PART_Q == <<"q">>

Responses ==
    { Response(TRUE, TEXT_ONE, <<>>),
      Response(TRUE, TEXT_TWO, << Content(<<PART_P>>) >>),
      Response(TRUE, EMPTY, << NoContent, Content(<<PART_P, EMPTY, PART_Q>>) >>),
      Response(FALSE, EMPTY, << Content(<<PART_Q>>) >>),
      Response(FALSE, EMPTY, <<>>),
      Response(TRUE, EMPTY, << NoContent, Content(<<EMPTY>>) >>),
      Response(TRUE, EMPTY, << Content(<<>>) >>) }

NoResponse == Response(FALSE, EMPTY, <<>>)

extract_text_from_response(response) ==
    IF response.has_text /\ response.text # EMPTY THEN response.text
    ELSE LET texts ==
                 Flatten([c \in 1..Len(response.candidates) |->
                     IF response.candidates[c].present
                     THEN SelectSeq(response.candidates[c].parts,
                                    LAMBDA t : t # EMPTY)
                     ELSE <<>>])
         IN  IF response.candidates # <<>> /\ texts # <<>>
             THEN Join(texts, <<"\n">>)
             ELSE EMPTY

\* the string returned when a call succeeds without extractable text
NO_TEXT_MESSAGE ==
    <<"U+751F", "U+6210", "U+7D50", "U+679C", "U+3092", "U+30C6", "U+30AD",
      "U+30B9", "U+30C8", "U+3068", "U+3057", "U+3066", "U+53D6", "U+5F97",
      "U+3067", "U+304D", "U+307E", "U+305B", "U+3093", "U+3067", "U+3057",
      "U+305F", "U+3002">>

\* exceptions: the class and the call that raised it (0: raised by the
\* function itself)
Error(type, call) == [type |-> type, call |-> call]
NoError == Error("None", 0)
\* failures of a call that are not google.api_core NotFound (the fallback
\* NotFound = Exception is taken only where google.generativeai is missing
\* as well, and there configure_genai raises before the first call)
OtherErrorTypes == {"PermissionDenied", "ResourceExhausted"}

Running == [kind |-> "running", value |-> EMPTY, error |-> NoError]
Returned(text) == [kind |-> "returned", value |-> text, error |-> NoError]
Raised(error) == [kind |-> "raised", value |-> EMPTY, error |-> error]

Call(name, raised, response) ==
    [name |-> name, raised |-> raised, response |-> response]

\* the loops have a candidate left to try
HasNext == result.kind = "running" /\ next_call <= Len(Attempts(model_names))

\* mutant of CallSucceeds: a successful call does not end the loops
CallSucceeds_keeps_trying ==
    /\ HasNext
    /\ \E response \in Responses :
        calls' = Append(calls,
            Call(Attempts(model_names)[next_call], "None", response))
    /\ next_call' = next_call + 1
    /\ UNCHANGED <<model_names, last_error, result>>
    /\ UNCHANGED <<parse_vars, plain_vars, app_vars>>

\* mutant of CallSucceeds: a response without text is treated like a model
\* that was not found and the next candidate is tried
CallSucceeds_skips_empty ==
    /\ HasNext
    /\ \E response \in Responses :
        LET text == extract_text_from_response(response)
        IN  /\ calls' = Append(calls,
                   Call(Attempts(model_names)[next_call], "None", response))
            /\ result' = IF text # EMPTY THEN Returned(text) ELSE result
            /\ next_call' = IF text # EMPTY THEN next_call ELSE next_call + 1
    /\ UNCHANGED <<model_names, last_error>>
    /\ UNCHANGED <<parse_vars, plain_vars, app_vars>>

\* model.generate_content returns; the function returns the text or the
\* fixed message
CallSucceeds ==
    /\ HasNext
    /\ \E response \in Responses :
        LET text == extract_text_from_response(response)
        IN  /\ calls' = Append(calls,
                   Call(Attempts(model_names)[next_call], "None", response))
            /\ result' = IF text # EMPTY THEN Returned(text)
                         ELSE Returned(NO_TEXT_MESSAGE)
    /\ UNCHANGED <<model_names, next_call, last_error>>
    /\ UNCHANGED <<parse_vars, plain_vars, app_vars>>

\* mutant of CallNotFound: only the first NotFound is remembered
CallNotFound_keeps_first ==
    /\ HasNext
    /\ calls' = Append(calls,
           Call(Attempts(model_names)[next_call], "NotFound", NoResponse))
    /\ last_error' = IF last_error = NoError
                     THEN Error("NotFound", Len(calls) + 1)
                     ELSE last_error
    /\ next_call' = next_call + 1
    /\ UNCHANGED <<model_names, result>>
    /\ UNCHANGED <<parse_vars, plain_vars, app_vars>>

\* the call raises NotFound: remember it and continue with the next candidate
CallNotFound ==
    /\ HasNext
    /\ calls' = Append(calls,
           Call(Attempts(model_names)[next_call], "NotFound", NoResponse))
    /\ last_error' = Error("NotFound", Len(calls) + 1)
    /\ next_call' = next_call + 1
    /\ UNCHANGED <<model_names, result>>
    /\ UNCHANGED <<parse_vars, plain_vars, app_vars>>

\* mutant of CallFails: every exception is caught like NotFound
CallFails_caught ==
    /\ HasNext
    /\ \E type \in OtherErrorTypes :
        /\ calls' = Append(calls,
               Call(Attempts(model_names)[next_call], type, NoResponse))
        /\ last_error' = Error(type, Len(calls) + 1)
    /\ next_call' = next_call + 1
    /\ UNCHANGED <<model_names, result>>
    /\ UNCHANGED <<parse_vars, plain_vars, app_vars>>

\* the call raises anything else: not caught, the function raises it
CallFails ==
    /\ HasNext
    /\ \E type \in OtherErrorTypes :
        /\ calls' = Append(calls,
               Call(Attempts(model_names)[next_call], type, NoResponse))
        /\ result' = Raised(Error(type, Len(calls) + 1))
    /\ UNCHANGED <<model_names, next_call, last_error>>
    /\ UNCHANGED <<parse_vars, plain_vars, app_vars>>

\* both loops are exhausted
Exhausted ==
    /\ result.kind = "running"
    /\ next_call > Len(Attempts(model_names))
    /\ result' = IF last_error # NoError THEN Raised(last_error)
                 ELSE Raised(Error("RuntimeError", 0))
    /\ UNCHANGED <<model_names, next_call, calls, last_error>>
    /\ UNCHANGED <<parse_vars, plain_vars, app_vars>>

ParseIdle ==
    /\ raw_text = EMPTY
    /\ parsed = [kind |-> "idle"]
    /\ frames_left = 0
    /\ re_cached = FALSE
PlainIdle == plain_in = EMPTY /\ plain_out = <<>>
\* the variables of every part but the active one hold nothing
AppIdle(active) ==
    /\ IF active = "fence" THEN TRUE
       ELSE fence_in = <<>> /\ fence_out = <<>>
    /\ IF active = "prompt" THEN TRUE
       ELSE prompt_args = <<>> /\ prompt = <<>>
    /\ IF active = "export" THEN TRUE
       ELSE export_args = <<>> /\ exports = <<>>
    /\ IF active = "session" THEN TRUE
       ELSE /\ session_state = <<>>
            /\ secrets = <<>>
            /\ request = <<>>
            /\ last_run = <<>>
InvokeIdle ==
    /\ model_names = <<>>
    /\ next_call = 1
    /\ calls = <<>>
    /\ last_error = NoError
    /\ result = [kind |-> "idle", value |-> EMPTY, error |-> NoError]

InitInvoke ==
    /\ model_names \in SeqsUpTo(ModelNameSet, MaxModelNames) \cup {GEMINI_FLASH_LATEST}
    /\ next_call = 1
    /\ calls = <<>>
    /\ last_error = NoError
    /\ result = Running
    /\ ParseIdle
    /\ PlainIdle
    /\ AppIdle("none")

NextInvoke == CallSucceeds \/ CallNotFound \/ CallFails \/ Exhausted

SpecInvoke == InitInvoke /\ [][NextInvoke]_vars

(***************************************************************************)
(* Output normalizer: _to_plain_text (nested in parse_model_output)        *)
(***************************************************************************)
ASCII_UPPER ==
    <<"A", "B", "C", "D", "E", "F", "G", "H", "I", "J", "K", "L", "M",
      "N", "O", "P", "Q", "R", "S", "T", "U", "V", "W", "X", "Y", "Z">>
ASCII_LOWER ==
    <<"a", "b", "c", "d", "e", "f", "g", "h", "i", "j", "k", "l", "m",
      "n", "o", "p", "q", "r", "s", "t", "u", "v", "w", "x", "y", "z">>

\* the characters that the letter c of a pattern matches under
\* re.IGNORECASE (str pattern): c and its capital, and besides them the
\* dotted capital and the dotless small i for i, the long s for s and the
\* Kelvin sign for k; any other character matches itself only
IgnoreCase(c) ==
    (IF \E k \in 1..26 : ASCII_LOWER[k] = c
     THEN {c, ASCII_UPPER[CHOOSE k \in 1..26 : ASCII_LOWER[k] = c]}
     ELSE {c})
    \cup (IF c = "i" THEN {"U+0130", "U+0131"}
          ELSE IF c = "s" THEN {"U+017F"}
          ELSE IF c = "k" THEN {"U+212A"}
          ELSE {})

\* s.lower() == word for a word of small ASCII letters: every character of
\* s is the letter of word at its place or a character that str.lower()
\* turns into it (its capital, and the Kelvin sign for k)
LowerIs(s, word) ==
    /\ Len(s) = Len(word)
    /\ \A k \in 1..Len(word) :
          \/ s[k] = word[k]
          \/ \E j \in 1..26 : ASCII_LOWER[j] = word[k] /\ ASCII_UPPER[j] = s[k]
          \/ word[k] = "k" /\ s[k] = "U+212A"

\* p (lower case) occurs at position i of s, ignoring case
MatchesIgnoreCaseAt(s, i, p) ==
    /\ i + Len(p) - 1 <= Len(s)
    /\ \A k \in 1..Len(p) : s[i + k - 1] \in IgnoreCase(p[k])

\* least index j >= from with s[j] = c, or 0
FirstIndex(s, from, c) ==
    LET found == {j \in from..Len(s) : s[j] = c}
    IN  IF found = {} THEN 0 ELSE CHOOSE j \in found : \A k \in found : j <= k

\* least index j >= from with s[j] not in the set, or Len(s) + 1: the end of
\* a greedy run of characters of the set
RunEnd(s, from, set) ==
    LET other == {j \in from..Len(s) : s[j] \notin set}
    IN  IF other = {} THEN Len(s) + 1
        ELSE CHOOSE j \in other : \A k \in other : j <= k

BLOCK_TAGS == { <<"p">>, <<"d", "i", "v">>, <<"s", "e", "c", "t", "i", "o", "n">>, <<"a", "r", "t", "i", "c", "l", "e">>, <<"f", "i", "g", "u", "r", "e">> }
FIGCAPTION == <<"f", "i", "g", "c", "a", "p", "t", "i", "o", "n">>
HEADING_LEVELS == {"1", "2", "3", "4", "5", "6"}
S_NBSP == <<"&", "n", "b", "s", "p", ";">>
S_BULLET == <<"U+2022", " ">>
S_DASH == <<"-", " ">>
S_CRLF == <<"\r", "\n">>
S_CR == <<"\r">>
S_NL == <<"\n">>
S_NLNL == <<"\n", "\n">>
S_SPACE == <<" ">>

\* <name[^>]*> for a tag name (lower case), ignoring case: length or 0
OpenTagLen(s, i, name) ==
    IF s[i] = "<" /\ MatchesIgnoreCaseAt(s, i + 1, name)
       /\ FirstIndex(s, i + 1 + Len(name), ">") # 0
    THEN FirstIndex(s, i + 1 + Len(name), ">") - i + 1
    ELSE 0

\* </name> for a tag name (lower case), ignoring case: length or 0
CloseTagLen(s, i, name) ==
    IF MatchesIgnoreCaseAt(s, i, <<"<", "/">> \o name \o <<">">>)
    THEN Len(name) + 3
    ELSE 0

MaxOf(set) == IF set = {} THEN 0 ELSE CHOOSE n \in set : \A m \in set : n >= m

\* the patterns of the re.sub and str.replace calls, in the order applied
PATTERNS ==
    <<"crlf", "cr", "nbsp", "br", "block_close", "block_open", "h_open",
      "h_close", "figcaption_open", "figcaption_close", "li_open",
      "li_close", "html_tag", "md_heading", "bold", "italic", "code",
      "bullet", "dash", "newlines">>

\* length of the match of the pattern that starts at position i of s, or 0
\* (no pattern matches the empty string)
MatchLen(pat, s, i) ==
    CASE pat = "crlf" -> IF StartsWithAt(s, i, S_CRLF) THEN 2 ELSE 0
      [] pat = "cr" -> IF StartsWithAt(s, i, S_CR) THEN 1 ELSE 0
      [] pat = "nbsp" -> IF StartsWithAt(s, i, S_NBSP) THEN Len(S_NBSP) ELSE 0
      [] pat = "br" ->
            \* <br\s*/?>
            IF s[i] = "<" /\ MatchesIgnoreCaseAt(s, i + 1, <<"b", "r">>)
            THEN LET j == RunEnd(s, i + 3, WHITESPACE)
                     k == IF j <= Len(s) /\ s[j] = "/" THEN j + 1 ELSE j
                 IN  IF k <= Len(s) /\ s[k] = ">" THEN k - i + 1 ELSE 0
            ELSE 0
      [] pat = "block_close" ->
            MaxOf({CloseTagLen(s, i, name) : name \in BLOCK_TAGS})
      [] pat = "block_open" ->
            MaxOf({OpenTagLen(s, i, name) : name \in BLOCK_TAGS})
      [] pat = "h_open" ->
            IF i + 2 <= Len(s) /\ s[i + 2] \in HEADING_LEVELS
            THEN OpenTagLen(s, i, <<"h", s[i + 2]>>)
            ELSE 0
      [] pat = "h_close" ->
            IF i + 3 <= Len(s) /\ s[i + 3] \in HEADING_LEVELS
            THEN CloseTagLen(s, i, <<"h", s[i + 3]>>)
            ELSE 0
      [] pat = "figcaption_open" -> OpenTagLen(s, i, FIGCAPTION)
      [] pat = "figcaption_close" -> CloseTagLen(s, i, FIGCAPTION)
      [] pat = "li_open" -> OpenTagLen(s, i, <<"l", "i">>)
      [] pat = "li_close" -> CloseTagLen(s, i, <<"l", "i">>)
      [] pat = "html_tag" ->
            \* HTML_TAG_RE <[^>]+>
            IF s[i] = "<" /\ FirstIndex(s, i + 1, ">") > i + 1
            THEN FirstIndex(s, i + 1, ">") - i + 1
            ELSE 0
      [] pat = "md_heading" ->
            \* ^\s*#+\s* with re.MULTILINE
            IF i = 1 \/ s[i - 1] = "\n"
            THEN LET j == RunEnd(s, i, WHITESPACE)
                     k == RunEnd(s, j, {"#"})
                 IN  IF k > j THEN RunEnd(s, k, WHITESPACE) - i ELSE 0
            ELSE 0
      [] pat = "bold" ->
            \* \*\*(.*?)\*\*
            IF StartsWithAt(s, i, <<"*", "*">>)
            THEN LET line == RunEnd(s, i + 2, {c \in {s[k] : k \in 1..Len(s)} : c # "\n"})
                     ends == {p \in (i + 2)..(line - 2) : StartsWithAt(s, p, <<"*", "*">>)}
                 IN  IF ends = {} THEN 0
                     ELSE (CHOOSE p \in ends : \A q \in ends : p <= q) + 2 - i
            ELSE 0
      [] pat = "italic" ->
            \* \*(.*?)\*
            IF s[i] = "*"
            THEN LET line == RunEnd(s, i + 1, {c \in {s[k] : k \in 1..Len(s)} : c # "\n"})
                     ends == {p \in (i + 1)..(line - 1) : s[p] = "*"}
                 IN  IF ends = {} THEN 0
                     ELSE (CHOOSE p \in ends : \A q \in ends : p <= q) + 1 - i
            ELSE 0
      [] pat = "code" ->
            \* a backtick, one or more characters that are not a backtick, a
            \* backtick
            IF s[i] = "U+0060" /\ FirstIndex(s, i + 1, "U+0060") > i + 1
            THEN FirstIndex(s, i + 1, "U+0060") - i + 1
            ELSE 0
      [] pat = "bullet" -> IF StartsWithAt(s, i, S_BULLET) THEN 2 ELSE 0
      [] pat = "dash" -> IF StartsWithAt(s, i, S_DASH) THEN 2 ELSE 0
      [] pat = "newlines" ->
            \* \n{3,}
            IF RunEnd(s, i, {"\n"}) - i >= 3 THEN RunEnd(s, i, {"\n"}) - i ELSE 0

\* what the match of length n at position i is replaced by
Replacement(pat, s, i, n) ==
    CASE pat \in {"crlf", "cr", "br", "figcaption_close", "li_close"} -> S_NL
      [] pat = "nbsp" -> S_SPACE
      [] pat \in {"block_close", "h_open", "h_close", "newlines"} -> S_NLNL
      [] pat \in {"block_open", "figcaption_open", "html_tag", "md_heading",
                  "bullet", "dash"} -> EMPTY
      [] pat = "li_open" -> S_DASH
      [] pat = "bold" -> SubSeq(s, i + 2, i + n - 3)
      [] pat \in {"italic", "code"} -> SubSeq(s, i + 1, i + n - 2)

\* position of the leftmost match of the pattern at or after position i, or 0
NextMatch(pat, s, i) ==
    LET starts == {j \in i..Len(s) : MatchLen(pat, s, j) > 0}
    IN  IF starts = {} THEN 0
        ELSE CHOOSE j \in starts : \A k \in starts : j <= k

RECURSIVE Sub(_, _, _, _)
\* re.sub / str.replace: replace the non-overlapping matches, leftmost
\* first; the scan resumes right after each match
Sub(pat, s, i, acc) ==
    LET m == NextMatch(pat, s, i)
    IN  IF m = 0 THEN acc \o SubSeq(s, i, Len(s))
        ELSE LET n == MatchLen(pat, s, m)
             IN  Sub(pat, s, m + n,
                     acc \o SubSeq(s, i, m - 1) \o Replacement(pat, s, m, n))

RECURSIVE ApplyPatterns(_, _)
ApplyPatterns(pats, s) ==
    IF pats = <<>> THEN s
    ELSE ApplyPatterns(Tail(pats), Sub(Head(pats), s, 1, EMPTY))

to_plain_text(value) == Strip(ApplyPatterns(PATTERNS, value))

(***************************************************************************)
(* Output normalizer: _strip_code_fences                                   *)
(***************************************************************************)
FENCE == <<"U+0060", "U+0060", "U+0060">>
S_JSON == <<"j", "s", "o", "n">>

strip_code_fences(text) ==
    LET cleaned == Strip(text)
    IN  IF StartsWith(cleaned, FENCE) /\ EndsWith(cleaned, FENCE)
        THEN LET inner == SubSeq(cleaned, 4, Len(cleaned) - 3)
                 nl == FirstIndex(inner, 1, "\n")
             IN  IF nl # 0
                 THEN LET first_line == SubSeq(inner, 1, nl - 1)
                          rest == Drop(inner, nl + 1)
                      IN  IF \E word \in {S_JSON, EMPTY} : LowerIs(Strip(first_line), word)
                          THEN Strip(rest)
                          ELSE Strip(inner)
                 ELSE Strip(inner)
        ELSE cleaned

(***************************************************************************)
(* json.loads of CPython 3.11 with the C scanner: objects, arrays,         *)
(* strings with their escapes, numbers, true, false, null, NaN and         *)
(* Infinity.  It ends in one of four ways: a value, JSONDecodeError, the   *)
(* ValueError of an integer too long to convert, or RecursionError when    *)
(* the interpreter does not allow the calls the text needs.                *)
(***************************************************************************)
\* a parsed value: its type, and the field that holds a value of that type
\* (b: bool, text: str and the lexeme of a number, items: list, pairs: the
\* key/value pairs of a dict in document order)
JValue(t, b, text, items, pairs) ==
    [t |-> t, b |-> b, text |-> text, items |-> items, pairs |-> pairs]
JNull == JValue("null", FALSE, <<>>, <<>>, <<>>)
JBool(b) == JValue("bool", b, <<>>, <<>>, <<>>)
JNum(lexeme) == JValue("number", FALSE, lexeme, <<>>, <<>>)
JStr(chars) == JValue("str", FALSE, chars, <<>>, <<>>)
JList(items) == JValue("list", FALSE, <<>>, items, <<>>)
JDict(pairs) == JValue("dict", FALSE, <<>>, <<>>, pairs)

JSON_WS == {" ", "\t", "\n", "\r"}
DIGITS == {"0", "1", "2", "3", "4", "5", "6", "7", "8", "9"}
\* characters json rejects unescaped inside a string (strict mode): every
\* character below U+0020
CONTROL_CHARS ==
    {"\n", "\t", "\r", "U+0000", "U+0001", "U+0002", "U+0003", "U+0004",
     "U+0005", "U+0006", "U+0007", "U+0008", "U+000B", "U+000C", "U+000E",
     "U+000F", "U+0010", "U+0011", "U+0012", "U+0013", "U+0014", "U+0015",
     "U+0016", "U+0017", "U+0018", "U+0019", "U+001A", "U+001B", "U+001C",
     "U+001D", "U+001E", "U+001F"}
\* BACKSLASH of json.decoder
ESCAPES ==
    ("\"" :> "\"") @@ ("\\" :> "\\") @@ ("/" :> "/") @@
    ("b" :> "U+0008") @@ ("f" :> "U+000C") @@
    ("n" :> "\n") @@ ("t" :> "\t") @@ ("r" :> "\r")

\* sys.get_int_max_str_digits(): the most digits int() converts
INT_MAX_STR_DIGITS == 4300
\* the nested calls under which the scanner runs: json.loads,
\* JSONDecoder.decode, JSONDecoder.raw_decode and the call of scan_once
LOADS_FRAMES == 4
\* the nested calls that raising JSONDecodeError takes: the call of the
\* class, its __init__ and ValueError.__init__
ERROR_FRAMES == 3

Parsed(value, end) == [ok |-> TRUE, value |-> value, end |-> end, error |-> "None"]
Failure(error) == [ok |-> FALSE, value |-> JNull, end |-> 0, error |-> error]
\* json.JSONDecodeError
ParseError == Failure("JSONDecodeError")
\* the StopIteration of the scanner where no value starts; raw_decode turns
\* it into JSONDecodeError
NoValue == Failure("StopIteration")
\* int(lexeme) of more than INT_MAX_STR_DIGITS digits
ExceedsLimit == Failure("ValueError")
RecursionFailure == Failure("RecursionError")

\* JSONDecodeError raised where room further calls are allowed
ErrMsg(room) == IF room < ERROR_FRAMES THEN RecursionFailure ELSE ParseError
\* parse_constant called where room further calls are allowed
Constant(lexeme, end, room) ==
    IF room < 1 THEN RecursionFailure ELSE Parsed(JNum(lexeme), end)

SkipWs(s, i) == RunEnd(s, i, JSON_WS)

\* the escape \uXXXX whose backslash is at position i: the character of
\* the four hexadecimal digits, or the character beyond the basic plane
\* when they are a high surrogate that an escaped low surrogate follows
\* before the end of the text; end is the position after the escape, 0
\* when the digits are not hexadecimal
UnicodeEscape(s, i) ==
    LET lower == <<"0", "1", "2", "3", "4", "5", "6", "7", "8", "9",
                   "a", "b", "c", "d", "e", "f">>
        upper == <<"0", "1", "2", "3", "4", "5", "6", "7", "8", "9",
                   "A", "B", "C", "D", "E", "F">>
        printable ==
              <<" ", "!", "\"", "#", "$", "%", "&", "'", "(", ")", "*", "+",
                ",", "-", ".", "/", "0", "1", "2", "3", "4", "5", "6", "7",
                "8", "9", ":", ";", "<", "=", ">", "?", "@", "A", "B", "C",
                "D", "E", "F", "G", "H", "I", "J", "K", "L", "M", "N", "O",
                "P", "Q", "R", "S", "T", "U", "V", "W", "X", "Y", "Z", "[",
                "\\", "]", "^", "_", "U+0060", "a", "b", "c", "d", "e", "f",
                "g", "h", "i", "j", "k", "l", "m", "n", "o", "p", "q", "r",
                "s", "t", "u", "v", "w", "x", "y", "z", "{", "|", "}", "~">>
        digit(c) == IF \E k \in 1..16 : c \in {lower[k], upper[k]}
                    THEN (CHOOSE k \in 1..16 : c \in {lower[k], upper[k]}) - 1
                    ELSE -1
        valid(j) == j + 3 <= Len(s) /\ \A k \in j..(j + 3) : digit(s[k]) >= 0
        number(j) == 4096 * digit(s[j]) + 256 * digit(s[j + 1])
                     + 16 * digit(s[j + 2]) + digit(s[j + 3])
        hex(n, k) == upper[((n \div k) % 16) + 1]
        char(n) ==
            IF n = 10 THEN "\n" ELSE IF n = 9 THEN "\t" ELSE IF n = 13 THEN "\r"
            ELSE IF n >= 32 /\ n <= 126 THEN printable[n - 31]
            ELSE "U+" \o (IF n >= 1048576 THEN hex(n, 1048576) ELSE "")
                      \o (IF n >= 65536 THEN hex(n, 65536) ELSE "")
                      \o hex(n, 4096) \o hex(n, 256) \o hex(n, 16) \o hex(n, 1)
        first == number(i + 2)
        paired == /\ first >= 55296 /\ first <= 56319
                  /\ i + 12 <= Len(s)
                  /\ s[i + 6] = "\\" /\ s[i + 7] = "u"
        second == number(i + 8)
    IN  IF ~valid(i + 2) THEN [char |-> "", end |-> 0]
        ELSE IF ~paired THEN [char |-> char(first), end |-> i + 6]
        ELSE IF ~valid(i + 8) THEN [char |-> "", end |-> 0]
        ELSE IF second >= 56320 /\ second <= 57343
             THEN [char |-> char(65536 + 1024 * (first - 55296) + (second - 56320)),
                   end |-> i + 12]
        ELSE [char |-> char(first), end |-> i + 6]

RECURSIVE ScanString(_, _, _)
\* the string whose opening quote is just before position i
ScanString(s, i, acc) ==
    IF i > Len(s) THEN ParseError
    ELSE IF s[i] = "\"" THEN Parsed(JStr(acc), i + 1)
    ELSE IF s[i] = "\\"
         THEN IF i + 1 <= Len(s) /\ s[i + 1] \in DOMAIN ESCAPES
              THEN ScanString(s, i + 2, Append(acc, ESCAPES[s[i + 1]]))
              ELSE IF i + 1 <= Len(s) /\ s[i + 1] = "u"
                        /\ UnicodeEscape(s, i).end # 0
              THEN ScanString(s, UnicodeEscape(s, i).end,
                              Append(acc, UnicodeEscape(s, i).char))
              ELSE ParseError
    ELSE IF s[i] \in CONTROL_CHARS THEN ParseError
    ELSE ScanString(s, i + 1, Append(acc, s[i]))

\* _match_number: the lexeme (-?(?:0|[1-9]\d*))(\.\d+)?([eE][-+]?\d+)?, which
\* int() converts when it has neither fraction nor exponent
ScanNumber(s, i) ==
    LET j == IF i <= Len(s) /\ s[i] = "-" THEN i + 1 ELSE i
        int_end == IF j > Len(s) \/ s[j] \notin DIGITS THEN 0
                   ELSE IF s[j] = "0" THEN j + 1
                   ELSE RunEnd(s, j, DIGITS)
        frac_end == IF int_end # 0 /\ int_end <= Len(s) /\ s[int_end] = "."
                       /\ RunEnd(s, int_end + 1, DIGITS) > int_end + 1
                    THEN RunEnd(s, int_end + 1, DIGITS)
                    ELSE int_end
        exp_digits == IF frac_end # 0 /\ frac_end <= Len(s) /\ s[frac_end] \in {"e", "E"}
                      THEN IF frac_end + 1 <= Len(s) /\ s[frac_end + 1] \in {"-", "+"}
                           THEN frac_end + 2
                           ELSE frac_end + 1
                      ELSE 0
        exp_end == IF exp_digits # 0 /\ RunEnd(s, exp_digits, DIGITS) > exp_digits
                   THEN RunEnd(s, exp_digits, DIGITS)
                   ELSE frac_end
    IN  IF int_end = 0 THEN NoValue
        ELSE IF exp_end = int_end /\ int_end - j > INT_MAX_STR_DIGITS THEN ExceedsLimit
        ELSE Parsed(JNum(SubSeq(s, i, exp_end - 1)), exp_end)

S_NULL == <<"n", "u", "l", "l">>
S_TRUE == <<"t", "r", "u", "e">>
S_FALSE == <<"f", "a", "l", "s", "e">>
S_NAN == <<"N", "a", "N">>
S_INFINITY == <<"I", "n", "f", "i", "n", "i", "t", "y">>
S_NEG_INFINITY == <<"-", "I", "n", "f", "i", "n", "i", "t", "y">>

RECURSIVE ScanOnce(_, _, _), ScanArray(_, _, _, _), ScanObject(_, _, _, _)

\* scan_once: the JSON value that starts at position i, where the
\* interpreter allows room further nested calls; an object or an array
\* takes one of them (Py_EnterRecursiveCall) for the time it is scanned
ScanOnce(s, i, room) ==
    IF i > Len(s) THEN NoValue
    ELSE IF s[i] = "\""
         THEN IF ScanString(s, i + 1, EMPTY).ok THEN ScanString(s, i + 1, EMPTY)
              ELSE ErrMsg(room)
    ELSE IF s[i] = "{"
         THEN LET j == SkipWs(s, i + 1)
              IN  IF room < 1 THEN RecursionFailure
                  ELSE IF j <= Len(s) /\ s[j] = "}" THEN Parsed(JDict(<<>>), j + 1)
                  ELSE ScanObject(s, j, <<>>, room - 1)
    ELSE IF s[i] = "["
         THEN LET j == SkipWs(s, i + 1)
              IN  IF room < 1 THEN RecursionFailure
                  ELSE IF j <= Len(s) /\ s[j] = "]" THEN Parsed(JList(<<>>), j + 1)
                  ELSE ScanArray(s, j, <<>>, room - 1)
    ELSE IF StartsWithAt(s, i, S_NULL) THEN Parsed(JNull, i + 4)
    ELSE IF StartsWithAt(s, i, S_TRUE) THEN Parsed(JBool(TRUE), i + 4)
    ELSE IF StartsWithAt(s, i, S_FALSE) THEN Parsed(JBool(FALSE), i + 5)
    ELSE IF ScanNumber(s, i) # NoValue THEN ScanNumber(s, i)
    ELSE IF StartsWithAt(s, i, S_NAN) THEN Constant(S_NAN, i + 3, room)
    ELSE IF StartsWithAt(s, i, S_INFINITY) THEN Constant(S_INFINITY, i + 8, room)
    ELSE IF StartsWithAt(s, i, S_NEG_INFINITY) THEN Constant(S_NEG_INFINITY, i + 9, room)
    ELSE NoValue

\* _parse_array: the items from position i on, after the items already read
ScanArray(s, i, items, room) ==
    LET item == ScanOnce(s, i, room)
        j == SkipWs(s, item.end)
    IN  IF ~item.ok THEN item
        ELSE IF j > Len(s) THEN ErrMsg(room)
        ELSE IF s[j] = "]" THEN Parsed(JList(Append(items, item.value)), j + 1)
        ELSE IF s[j] = ","
             THEN ScanArray(s, SkipWs(s, j + 1), Append(items, item.value), room)
        ELSE ErrMsg(room)

\* _parse_object: the pairs from position i on, after the pairs already read
ScanObject(s, i, pairs, room) ==
    IF i > Len(s) \/ s[i] # "\"" THEN ErrMsg(room)
    ELSE LET key == ScanString(s, i + 1, EMPTY)
             colon == SkipWs(s, key.end)
         IN  IF ~key.ok \/ colon > Len(s) \/ s[colon] # ":" THEN ErrMsg(room)
             ELSE LET val == ScanOnce(s, SkipWs(s, colon + 1), room)
                      j == SkipWs(s, val.end)
                      read == Append(pairs, <<key.value.text, val.value>>)
                  IN  IF ~val.ok THEN val
                      ELSE IF j > Len(s) THEN ErrMsg(room)
                      ELSE IF s[j] = "}" THEN Parsed(JDict(read), j + 1)
                      ELSE IF s[j] = ","
                           THEN ScanObject(s, SkipWs(s, j + 1), read, room)
                      ELSE ErrMsg(room)

\* json.loads, called where the interpreter allows frames further nested
\* calls (its own is the first): one value with optional whitespace
\* around it, nothing else.  The byte order mark is refused by loads, a
\* text without a value by raw_decode and text after the value by decode.
json_loads(s, frames) ==
    LET value == ScanOnce(s, SkipWs(s, 1), frames - LOADS_FRAMES)
    IN  IF frames < LOADS_FRAMES THEN RecursionFailure
        ELSE IF s # EMPTY /\ s[1] = "U+FEFF" THEN ErrMsg(frames - 1)
        ELSE IF value = NoValue THEN ErrMsg(frames - 3)
        ELSE IF ~value.ok THEN value
        ELSE IF SkipWs(s, value.end) # Len(s) + 1 THEN ErrMsg(frames - 2)
        ELSE value

\* dict.get(key): the value of the last pair with the key, None without one
DictGet(data, key) ==
    LET hits == {k \in 1..Len(data.pairs) : data.pairs[k][1] = key}
    IN  IF hits = {} THEN JNull
        ELSE data.pairs[CHOOSE k \in hits : \A m \in hits : k >= m][2]

(***************************************************************************)
(* Output normalizer: parse_model_output                                   *)
(***************************************************************************)
KEY_HEADLINES == <<"h", "e", "a", "d", "l", "i", "n", "e", "s">>
KEY_SUBHEADLINES == <<"s", "u", "b", "h", "e", "a", "d", "l", "i", "n", "e", "s">>
KEY_ARTICLE == <<"a", "r", "t", "i", "c", "l", "e">>

\* number of headline and of subheadline candidates required
REQUIRED_COUNT == 10

GenerationResult(headlines, subheadlines, article, article_raw) ==
    [headlines |-> headlines, subheadlines |-> subheadlines,
     article |-> article, article_raw |-> article_raw]
NoResult == GenerationResult(<<>>, <<>>, EMPTY, EMPTY)

Pending == [kind |-> "pending", value |-> NoResult, error |-> "None", message |-> "None"]
ParseReturned(value) ==
    [kind |-> "returned", value |-> value, error |-> "None", message |-> "None"]
ParseRaised(error, message) ==
    [kind |-> "raised", value |-> NoResult, error |-> error, message |-> message]

\* mutant of IsTenStrings: the length is not checked
IsTenStrings_any_length(x) ==
    /\ x.t = "list"
    /\ \A k \in 1..Len(x.items) : x.items[k].t = "str"

\* isinstance(x, list) and len(x) == 10 and all(isinstance(item, str) ...)
IsTenStrings(x) ==
    /\ x.t = "list"
    /\ Len(x.items) = REQUIRED_COUNT
    /\ \A k \in 1..Len(x.items) : x.items[k].t = "str"

\* mutant of IsNonBlankString: the article is not stripped before the test
IsNonBlankString_no_strip(x) == x.t = "str" /\ x.text # EMPTY

\* isinstance(article, str) and article.strip()
IsNonBlankString(x) == x.t = "str" /\ Strip(x.text) # EMPTY

\* the checks of the three fields and the result built from them
validated_fields(headlines, subheadlines, article) ==
    IF ~IsTenStrings(headlines)
    THEN ParseRaised("ValueError", "headlines")
    ELSE IF ~IsTenStrings(subheadlines)
    THEN ParseRaised("ValueError", "subheadlines")
    ELSE IF ~IsNonBlankString(article)
    THEN ParseRaised("ValueError", "article")
    ELSE ParseReturned(GenerationResult(
             [k \in 1..Len(headlines.items) |-> to_plain_text(headlines.items[k].text)],
             [k \in 1..Len(subheadlines.items) |-> to_plain_text(subheadlines.items[k].text)],
             to_plain_text(article.text),
             article.text))

\* the nested calls the result of a valid reply takes, parse_model_output
\* included: the list comprehension, _to_plain_text, re.sub and, with the
\* pattern in the cache of re, re._compile reading the value of the flag
\* re.IGNORECASE
PLAIN_TEXT_FRAMES == 8
\* the same where re has to compile the patterns first: the frames of the
\* compiler of re come on top
COMPILE_FRAMES == 13

\* the frames _to_plain_text needs under parse_model_output; a call with
\* fewer leaves the cache without the pattern that needs the most
plain_text_frames(cached) ==
    IF cached THEN PLAIN_TEXT_FRAMES ELSE COMPILE_FRAMES

\* what follows json.loads: the ValueError raised for JSONDecodeError (any
\* other exception of json.loads goes on to the caller), the three
\* data.get calls (which need a dict), the checks, and the result, whose
\* normalization needs plain_text_frames
validated_data(loaded, frames, cached) ==
    IF loaded = ParseError THEN ParseRaised("ValueError", "not JSON")
    ELSE IF loaded = ExceedsLimit THEN ParseRaised("ValueError", "Exceeds the limit")
    ELSE IF ~loaded.ok THEN ParseRaised("RecursionError", "maximum recursion depth exceeded")
    ELSE IF loaded.value.t # "dict" THEN ParseRaised("AttributeError", "get")
    ELSE LET checked == validated_fields(DictGet(loaded.value, KEY_HEADLINES),
                                         DictGet(loaded.value, KEY_SUBHEADLINES),
                                         DictGet(loaded.value, KEY_ARTICLE))
         IN  IF checked.kind = "returned" /\ frames < plain_text_frames(cached)
             THEN ParseRaised("RecursionError", "maximum recursion depth exceeded")
             ELSE checked

\* parse_model_output, called where the interpreter allows frames further
\* nested calls: its own frame is one of them, and json.loads is called
\* from it; cached tells whether re holds the patterns of _to_plain_text
parse_model_output(text, frames, cached) ==
    validated_data(json_loads(strip_code_fences(text), frames - 1), frames, cached)

(***************************************************************************)
(* Properties of generate_press_release                                    *)
(***************************************************************************)
CalledNames == [i \in 1..Len(calls) |-> calls[i].name]

\* the aggregated text of a response, when it has a non-empty one
HasAggregatedText(response) == response.has_text /\ response.text # EMPTY

\* no aggregated text and no content part with text
HasNoText(response) ==
    /\ ~HasAggregatedText(response)
    /\ \A c \in 1..Len(response.candidates) :
           response.candidates[c].present =>
               \A k \in 1..Len(response.candidates[c].parts) :
                   response.candidates[c].parts[k] = EMPTY

\* the calls made are the first candidates of the loops' order, and every
\* call before the last one raised NotFound
OrderedFallback ==
    /\ Len(calls) <= Len(Attempts(model_names))
    /\ CalledNames = SubSeq(Attempts(model_names), 1, Len(calls))
    /\ \A j \in 1..(Len(calls) - 1) : calls[j].raised = "NotFound"

\* C1: the candidates are tried in order and the first call that succeeds
\* with non-empty text ends the function: it is the last call made, every
\* call before it raised NotFound, and the function returns exactly its text.
C1_FirstSuccessReturned ==
    \A i \in 1..Len(calls) :
        (calls[i].raised = "None" /\ HasAggregatedText(calls[i].response)) =>
            /\ i = Len(calls)
            /\ OrderedFallback
            /\ result = Returned(calls[i].response.text)

\* models/a and a are not found, models/b answers: b is never called
C1_Witness ==
    /\ model_names = <<NAME_MODELS_A, NAME_MODELS_B>>
    /\ Len(calls) = 3
    /\ CalledNames = <<NAME_MODELS_A, NAME_A, NAME_MODELS_B>>
    /\ calls[1].raised = "NotFound"
    /\ calls[2].raised = "NotFound"
    /\ calls[3].raised = "None"
    /\ result = Returned(TEXT_ONE)

\* C2: when the function has ended and every call made raised NotFound, it
\* raised the NotFound of the last call if there was a call, and the generic
\* RuntimeError if there was none.
C2_LastNotFoundRaised ==
    (result.kind # "running" /\ \A i \in 1..Len(calls) : calls[i].raised = "NotFound") =>
        /\ CalledNames = Attempts(model_names)
        /\ IF calls # <<>>
           THEN result = Raised(Error("NotFound", Len(calls)))
           ELSE model_names = <<>> /\ result = Raised(Error("RuntimeError", 0))

C2_Witness ==
    /\ Len(calls) >= 3
    /\ \A i \in 1..Len(calls) : calls[i].raised = "NotFound"
    /\ result = Raised(Error("NotFound", Len(calls)))

\* C3: a call that raises anything other than NotFound is the last call
\* made and its exception is what the function raises, also when a NotFound
\* was recorded before it.
C3_OtherFailurePropagates ==
    \A i \in 1..Len(calls) :
        calls[i].raised \in OtherErrorTypes =>
            /\ i = Len(calls)
            /\ OrderedFallback
            /\ result = Raised(Error(calls[i].raised, i))

C3_Witness ==
    /\ Len(calls) = 2
    /\ calls[1].raised = "NotFound"
    /\ last_error = Error("NotFound", 1)
    /\ calls[2].raised = "PermissionDenied"
    /\ next_call < Len(Attempts(model_names))
    /\ result = Raised(Error("PermissionDenied", 2))

\* C4: no candidate name is called twice and the number of calls is at most
\* the length of model_names.
C4_CallsBoundedByModelNames ==
    /\ Len(calls) <= Len(model_names)
    /\ \A i, j \in 1..Len(calls) : calls[i].name = calls[j].name => i = j

\* C5: a call that succeeds with a response holding no text is the last call
\* made and the function returns the fixed message.
C5_NoTextReturnsMessage ==
    \A i \in 1..Len(calls) :
        (calls[i].raised = "None" /\ HasNoText(calls[i].response)) =>
            /\ i = Len(calls)
            /\ OrderedFallback
            /\ result = Returned(NO_TEXT_MESSAGE)

C5_Witness ==
    /\ Len(calls) = 2
    /\ calls[2].raised = "None"
    /\ HasNoText(calls[2].response)
    /\ calls[2].response.candidates # <<>>
    /\ next_call < Len(Attempts(model_names))
    /\ result = Returned(NO_TEXT_MESSAGE)

(***************************************************************************)
(* Inputs of parse_model_output: model replies, written out as JSON text   *)
(***************************************************************************)
MaxListLen == 11

DIGIT_CHARS == <<"0", "1", "2", "3", "4", "5", "6", "7", "8", "9">>

\* str(n) for n >= 0
RECURSIVE Decimal(_)
Decimal(n) ==
    IF n < 10 THEN <<DIGIT_CHARS[n + 1]>>
    ELSE Decimal(n \div 10) \o <<DIGIT_CHARS[(n % 10) + 1]>>

EscapeChar(c) ==
    CASE c = "\"" -> <<"\\", "\"">>
      [] c = "\\" -> <<"\\", "\\">>
      [] c = "\n" -> <<"\\", "n">>
      [] c = "\t" -> <<"\\", "t">>
      [] c = "\r" -> <<"\\", "r">>
      [] c = "U+0008" -> <<"\\", "b">>
      [] c = "U+000C" -> <<"\\", "f">>
      [] OTHER -> <<c>>

RECURSIVE ToJson(_)
\* a JSON text of a value as a model writes it: ", " and ": " between the
\* items, the quote, the backslash and \n, \t, \r, \b, \f escaped, every
\* other character of a string as it is
ToJson(x) ==
    CASE x.t = "null" -> S_NULL
      [] x.t = "bool" -> IF x.b THEN S_TRUE ELSE S_FALSE
      [] x.t = "number" -> x.text
      [] x.t = "str" ->
            <<"\"">> \o Flatten([k \in 1..Len(x.text) |-> EscapeChar(x.text[k])]) \o <<"\"">>
      [] x.t = "list" ->
            <<"[">> \o Join([k \in 1..Len(x.items) |-> ToJson(x.items[k])], <<",", " ">>) \o <<"]">>
      [] x.t = "dict" ->
            <<"{">> \o Join([k \in 1..Len(x.pairs) |->
                         ToJson(JStr(x.pairs[k][1])) \o <<":", " ">> \o ToJson(x.pairs[k][2])],
                     <<",", " ">>) \o <<"}">>

\* "H1", "H2", ...: the k-th candidate of a list
Candidate(prefix, k) == JStr(<<prefix>> \o Decimal(k))
Candidates(prefix, n) == JList([k \in 1..n |-> Candidate(prefix, k)])
WithItem(list, k, item) == JList([list.items EXCEPT ![k] = item])

ListLengths == {0, REQUIRED_COUNT - 1} \cup (REQUIRED_COUNT..MaxListLen)
NonStringItems == {JNum(<<"7">>), JNull}
\* a candidate that carries markup
MarkupItem(prefix) == JStr(<<"*", "*", prefix, "1", "*", "*">>)
\* the text of a field the reply does not have
ABSENT == EMPTY

\* JSON texts of the values of the headlines or subheadlines field
CandidateFieldTexts(prefix) ==
    {ABSENT}
    \cup {ToJson(x) : x \in {JNull, JStr(<<"x">>), JNum(<<"1">>), JDict(<<>>)}}
    \cup {ToJson(Candidates(prefix, n)) : n \in ListLengths}
    \cup {ToJson(WithItem(Candidates(prefix, n), 1, x)) :
              n \in ListLengths \ {0}, x \in NonStringItems}
    \cup {ToJson(WithItem(Candidates(prefix, REQUIRED_COUNT), REQUIRED_COUNT, JNum(<<"7">>))),
          ToJson(WithItem(Candidates(prefix, REQUIRED_COUNT), 1, MarkupItem(prefix)))}

ARTICLE_TWO_PARAGRAPHS == <<"<", "p", ">", "P", "a", "r", "a", " ", "o", "n", "e", "<", "/", "p", ">", "<", "p", ">", "P", "a", "r", "a", " ", "t", "w", "o", "<", "/", "p", ">">>
ARTICLE_EMPTY_PARAGRAPH == <<"<", "p", ">", "<", "/", "p", ">">>

\* JSON texts of the values of the article field
ArticleFieldTexts ==
    {ABSENT}
    \cup {ToJson(x) : x \in {JNull, JNum(<<"1">>), JList(<<JStr(<<"a">>)>>)}}
    \cup {ToJson(JStr(text)) : text \in
              {EMPTY, <<" ">>, <<"\n", "U+3000">>, <<"a">>,
               ARTICLE_TWO_PARAGRAPHS, ARTICLE_EMPTY_PARAGRAPH,
               <<"<", "b", "r", ">">>, S_NBSP,
               <<"a", "\n", "\n", "\n", "*", "b", "*">>}}

\* the JSON text of an object from the texts of its fields
ReplyText(headlines, subheadlines, article) ==
    <<"{">>
    \o Join(SelectSeq(<< IF headlines = ABSENT THEN EMPTY
                         ELSE ToJson(JStr(KEY_HEADLINES)) \o <<":", " ">> \o headlines,
                         IF subheadlines = ABSENT THEN EMPTY
                         ELSE ToJson(JStr(KEY_SUBHEADLINES)) \o <<":", " ">> \o subheadlines,
                         IF article = ABSENT THEN EMPTY
                         ELSE ToJson(JStr(KEY_ARTICLE)) \o <<":", " ">> \o article >>,
                      LAMBDA field : field # EMPTY),
            <<",", " ">>)
    \o <<"}">>

ReplyTexts ==
    {ReplyText(h, sh, a) : h \in CandidateFieldTexts("H"),
                           sh \in CandidateFieldTexts("S"),
                           a \in ArticleFieldTexts}

GOOD_REPLY ==
    JDict(<< <<KEY_HEADLINES, Candidates("H", REQUIRED_COUNT)>>,
             <<KEY_SUBHEADLINES, Candidates("S", REQUIRED_COUNT)>>,
             <<KEY_ARTICLE, JStr(ARTICLE_TWO_PARAGRAPHS)>> >>)

\* replies that are not a JSON object, and objects that repeat a key
OtherTexts ==
    {ToJson(x) : x \in
        {JList(<<>>), JList(<<JStr(<<"a">>)>>), JStr(<<"x">>), JNum(<<"1">>),
         JNull, JBool(TRUE),
         JDict(GOOD_REPLY.pairs \o << <<KEY_ARTICLE, JStr(<<" ">>)>> >>),
         JDict(<< <<KEY_ARTICLE, JNull>> >> \o GOOD_REPLY.pairs)}}

\* texts json.loads rejects
MalformedTexts ==
    {EMPTY, <<"{">>, <<"n", "o", "t", " ", "j", "s", "o", "n">>, <<"{", "\"", "h", "e", "a", "d", "l", "i", "n", "e", "s", "\"", ":", " ", "[", "}">>, <<"{", "'", "a", "r", "t", "i", "c", "l", "e", "'", ":", " ", "'", "a", "'", "}">>,
     <<"H", "e", "r", "e", ":", " ">> \o ToJson(GOOD_REPLY), ToJson(GOOD_REPLY) \o <<",">>}

\* a reply inside a fenced code block
Fenced(tag, text) == FENCE \o tag \o <<"\n">> \o text \o <<"\n">> \o FENCE

RawTexts ==
    ReplyTexts \cup OtherTexts \cup MalformedTexts
    \cup {Fenced(tag, text) :
              tag \in {EMPTY, S_JSON, <<"J", "S", "O", "N", " ">>, <<"j", "s">>},
              text \in OtherTexts \cup {ToJson(GOOD_REPLY)}}
    \cup {<<" ", "\n">> \o ToJson(GOOD_REPLY) \o <<"\n">>,
          FENCE \o ToJson(GOOD_REPLY) \o FENCE}

\* sys.getrecursionlimit() of an interpreter as it starts
RECURSION_LIMIT == 1000
\* the nested calls main can make when python runs the script with that
\* limit (the module and main take one each); a host that runs the
\* script deeper in its own stack leaves fewer
MAIN_FRAMES == RECURSION_LIMIT - 2
\* the most nested calls allowed in the calls made close to the limit
MaxFrames == 14

Digits(n) == [k \in 1..n |-> "1"]

\* replies with an integer of INT_MAX_STR_DIGITS digits or one more: bare,
\* negative, with a fraction, in a list that is not closed, under a key the
\* reply need not have, and as the article
LongNumberTexts ==
    {Digits(INT_MAX_STR_DIGITS), Digits(INT_MAX_STR_DIGITS + 1),
     <<"-">> \o Digits(INT_MAX_STR_DIGITS + 1),
     Digits(INT_MAX_STR_DIGITS + 1) \o <<".", "5">>,
     <<"[">> \o Digits(INT_MAX_STR_DIGITS + 1),
     ToJson(JDict(GOOD_REPLY.pairs
                  \o << <<<<"n">>, JNum(Digits(INT_MAX_STR_DIGITS + 1))>> >>)),
     ToJson(JDict(<< GOOD_REPLY.pairs[1], GOOD_REPLY.pairs[2],
                     <<KEY_ARTICLE, JNum(Digits(INT_MAX_STR_DIGITS + 1))>> >>))}

\* replies parsed close to the recursion limit: values nested up to three
\* deep, closed or cut off at a place where the scanner raises, texts
\* without a value or with text after it, and a valid reply with and
\* without a nested value under a key it need not have
NestedTexts ==
    {EMPTY, <<"x">>, <<"1">>, <<"1", " ", "x">>, <<"U+FEFF", "1">>, <<"\"", "a">>,
     <<"N", "a", "N">>, <<"[", "]">>, <<"{", "}">>,
     <<"[", "[", "[", "]", "]", "]">>, <<"[", "[", "[", "x">>,
     <<"[", "[", "[", "]", " ", "x">>, <<"[", "[", "[", "\"", "a">>,
     <<"[", "[", "[", "N", "a", "N", "]", "]", "]">>,
     <<"{", "\"", "a", "\"", ":", "{", "\"", "a", "\"", ":", "{", "1">>,
     ToJson(GOOD_REPLY),
     ToJson(JDict(GOOD_REPLY.pairs
                  \o << <<<<"n">>, JList(<<JList(<<JList(<<>>)>>)>>)>> >>)),
     ReplyText(ToJson(Candidates("H", REQUIRED_COUNT - 1)),
               ToJson(Candidates("S", REQUIRED_COUNT)), ToJson(JStr(<<"a">>)))}

\* the replies, the nested calls allowed when they are parsed, and whether
\* a text was normalized in the process before: the first reply of a
\* process is parsed from main, replies close to the limit come first or
\* later
ParseInputs ==
    ((RawTexts \cup LongNumberTexts) \X {MAIN_FRAMES} \X {FALSE})
    \cup (NestedTexts \X (0..MaxFrames) \X BOOLEAN)

\* one call of parse_model_output(raw_text); a result means that
\* _to_plain_text has returned, with its patterns compiled
ParseOutput ==
    /\ parsed = Pending
    /\ parsed' = parse_model_output(raw_text, frames_left, re_cached)
    /\ re_cached' = (re_cached \/ parsed'.kind = "returned")
    /\ UNCHANGED <<raw_text, frames_left>>
    /\ UNCHANGED <<invoke_vars, plain_vars, app_vars>>

InitParse ==
    /\ \E input \in ParseInputs :
          /\ raw_text = input[1]
          /\ frames_left = input[2]
          /\ re_cached = input[3]
    /\ parsed = Pending
    /\ InvokeIdle
    /\ PlainIdle
    /\ AppIdle("none")

NextParse == ParseOutput

SpecParse == InitParse /\ [][NextParse]_vars

(***************************************************************************)
(* Inputs of _to_plain_text: texts built from the markup it recognizes     *)
(***************************************************************************)
MaxPlainTokens == 2

MarkupTokens ==
    { <<"<", "p", ">">>, <<"<", "/", "p", ">">>, <<"<", "b", "r", ">">>, <<"<", "h", "2", ">">>, <<"<", "/", "h", "2", ">">>, <<"<", "l", "i", ">">>, <<"<", "/", "l", "i", ">">>,
      <<"<", "f", "i", "g", "c", "a", "p", "t", "i", "o", "n", ">">>, <<"<", "/", "f", "i", "g", "c", "a", "p", "t", "i", "o", "n", ">">>, <<"<", "d", "i", "v", ">">>, <<"<", "/", "d", "i", "v", ">">>,
      <<"*", "*">>, <<"*">>, <<"U+0060">>, <<"#">>, S_DASH, S_BULLET,
      <<"\n">>, <<" ">>, <<"a">>, <<"U+3000">>,
      <<"<", "/", "d", "U+0131", "v", ">">> }

PlainTexts == {Flatten(tokens) : tokens \in SeqsUpTo(MarkupTokens, MaxPlainTokens)}

\* _to_plain_text applied to the text, then to its own result
ApplyPlainText ==
    /\ Len(plain_out) < 2
    /\ plain_out' = Append(plain_out,
           to_plain_text(IF plain_out = <<>> THEN plain_in
                         ELSE plain_out[Len(plain_out)]))
    /\ UNCHANGED plain_in
    /\ UNCHANGED <<invoke_vars, parse_vars, app_vars>>

InitPlain ==
    /\ plain_in \in PlainTexts
    /\ plain_out = <<>>
    /\ InvokeIdle
    /\ ParseIdle
    /\ AppIdle("none")

NextPlain == ApplyPlainText

SpecPlain == InitPlain /\ [][NextPlain]_vars

(***************************************************************************)
(* Properties of parse_model_output and _to_plain_text                     *)
(***************************************************************************)
\* what json.loads gives for the reply with the frames the call leaves it
ReplyData == json_loads(strip_code_fences(raw_text), frames_left - 1)
ReplyIsObject == ReplyData.ok /\ ReplyData.value.t = "dict"
ReplyField(key) == DictGet(ReplyData.value, key)

\* missing, not a list, not of length 10, or holding a non-string
BadCandidateList(x) ==
    \/ x.t # "list"
    \/ Len(x.items) # 10
    \/ \E k \in 1..Len(x.items) : x.items[k].t # "str"

\* C6: whatever the raw text, parse_model_output returns a result or raises
\* the validation error (the ValueError of one of its own raise
\* statements), never another exception.
C6_OnlyValidationErrors ==
    parsed.kind = "raised"
    => /\ parsed.error = "ValueError"
       /\ parsed.message \in {"not JSON", "headlines", "subheadlines", "article"}

\* C7: a JSON object whose headlines or subheadlines value is missing, not a
\* list, not of length 10 or holds a non-string is rejected with ValueError.
C7_BadCandidatesRejected ==
    (/\ parsed # Pending
     /\ ReplyIsObject
     /\ \/ BadCandidateList(ReplyField(KEY_HEADLINES))
        \/ BadCandidateList(ReplyField(KEY_SUBHEADLINES)))
    => /\ parsed.kind = "raised"
       /\ parsed.error = "ValueError"
       /\ parsed.message \in {"headlines", "subheadlines"}

\* a list of the wrong length is rejected although all its items are strings
C7_Witness ==
    /\ raw_text = ReplyText(ToJson(Candidates("H", REQUIRED_COUNT)),
                            ToJson(Candidates("S", REQUIRED_COUNT + 1)),
                            ToJson(JStr(<<"a">>)))
    /\ ReplyIsObject
    /\ ~BadCandidateList(ReplyField(KEY_HEADLINES))
    /\ Len(ReplyField(KEY_SUBHEADLINES).items) = REQUIRED_COUNT + 1
    /\ parsed = ParseRaised("ValueError", "subheadlines")

\* C8: a JSON object whose article is missing, not a string, empty or only
\* whitespace is rejected with ValueError.
C8_BadArticleRejected ==
    (/\ parsed # Pending
     /\ ReplyIsObject
     /\ \/ ReplyField(KEY_ARTICLE).t # "str"
        \/ \A k \in 1..Len(ReplyField(KEY_ARTICLE).text) :
               ReplyField(KEY_ARTICLE).text[k] \in WHITESPACE)
    => /\ parsed.kind = "raised"
       /\ parsed.error = "ValueError"

\* both lists are fine and the article is one blank
C8_Witness ==
    /\ ReplyIsObject
    /\ ~BadCandidateList(ReplyField(KEY_HEADLINES))
    /\ ~BadCandidateList(ReplyField(KEY_SUBHEADLINES))
    /\ ReplyField(KEY_ARTICLE).t = "str"
    /\ ReplyField(KEY_ARTICLE).text = <<" ">>
    /\ parsed = ParseRaised("ValueError", "article")

\* C9: a returned GenerationResult has 10 headlines, 10 subheadlines and a
\* non-empty normalized article.
C9_ResultInvariant ==
    parsed.kind = "returned" =>
        /\ Len(parsed.value.headlines) = 10
        /\ Len(parsed.value.subheadlines) = 10
        /\ parsed.value.article # EMPTY

\* C10: applying _to_plain_text to its own result changes nothing.
C10_PlainTextIdempotent ==
    Len(plain_out) = 2 => plain_out[2] = plain_out[1]

(***************************************************************************)
(* Fence stripping: _strip_code_fences on texts with and without a fence   *)
(***************************************************************************)
MaxFenceLines == 2

\* leading blanks, an opening fence, a first line, up to MaxFenceLines
\* lines, a closing fence and trailing blanks, each of them optional
FenceTexts ==
    {lead \o open \o first \o Join(body, S_NL) \o close \o trail :
        lead \in {EMPTY, <<" ">>, <<"U+3000">>},
        open \in {EMPTY, FENCE},
        first \in {EMPTY, S_NL, S_JSON \o S_NL, <<"J", "S", "O", "N", " ", "\n">>,
                   <<"j", "s", "\n">>, S_JSON},
        body \in SeqsUpTo({<<"{", "}">>, <<"a", " ">>, EMPTY}, MaxFenceLines),
        close \in {EMPTY, FENCE, S_NL \o FENCE},
        trail \in {EMPTY, S_NL}}

\* one call of _strip_code_fences(fence_in)
StripFences ==
    /\ fence_out = <<>>
    /\ fence_out' = <<strip_code_fences(fence_in)>>
    /\ UNCHANGED fence_in
    /\ UNCHANGED <<invoke_vars, parse_vars, plain_vars,
                   prompt_args, prompt, export_args, exports,
                   session_state, secrets, request, last_run>>

InitFence ==
    /\ fence_in \in FenceTexts
    /\ fence_out = <<>>
    /\ InvokeIdle
    /\ ParseIdle
    /\ PlainIdle
    /\ AppIdle("fence")

SpecFence == InitFence /\ [][StripFences]_vars

\* the text is wrapped: it opens with a fence and closes with another one
FenceWrapped(text) ==
    /\ Len(text) >= 2 * Len(FENCE)
    /\ StartsWith(text, FENCE)
    /\ EndsWith(text, FENCE)

\* what is between the two fences
FenceInner(text) == SubSeq(text, Len(FENCE) + 1, Len(text) - Len(FENCE))

\* the first line of the inner text is the tag json (in any case) or empty
FenceTagLine(inner) ==
    /\ \E k \in 1..Len(inner) : inner[k] = "\n"
    /\ LET nl == CHOOSE k \in 1..Len(inner) :
                     inner[k] = "\n" /\ \A m \in 1..(k - 1) : inner[m] # "\n"
       IN  \E word \in {S_JSON, EMPTY} :
               LowerIs(Strip(SubSeq(inner, 1, nl - 1)), word)

\* the inner text without its first line
FenceRest(inner) ==
    LET nl == CHOOSE k \in 1..Len(inner) :
                  inner[k] = "\n" /\ \A m \in 1..(k - 1) : inner[m] # "\n"
    IN  SubSeq(inner, nl + 1, Len(inner))

\* C11: _strip_code_fences removes a wrapping fence, also the first inner
\* line when that is a language tag or empty, and returns every text
\* without such a wrapper unchanged.
C11_FenceStripping ==
    fence_out # <<>> =>
        IF FenceWrapped(fence_in)
        THEN fence_out[1] =
                 Strip(IF FenceTagLine(FenceInner(fence_in))
                       THEN FenceRest(FenceInner(fence_in))
                       ELSE FenceInner(fence_in))
        ELSE fence_out[1] = fence_in

(***************************************************************************)
(* The Streamlit session of main: login gate, generation, selection of a   *)
(* headline, a subheadline and images, confirmation and its undoing.       *)
(* session_state is a dictionary: gemini_api_key, headline_choice and       *)
(* subheadline_choice hold Missing while the key is not stored, any other  *)
(* key without a value holds EMPTY, None is EMPTY (credentials) or         *)
(* NoResult (generation), a popped finalizing_indicator is FALSE, and the  *)
(* keys img_include_ID, img_pos_ID, img_caption_ID are the set of the      *)
(* included ids and two sets of <<id, value>> pairs.  A widget with a key  *)
(* has the value that is stored under its key.  Each action is one run of  *)
(* the script, from the event that starts it to its end.                   *)
(***************************************************************************)
MaxChoice == 2

\* str.split(sep) for a non-empty sep
RECURSIVE Split(_, _)
Split(s, sep) ==
    LET hits == {i \in 1..(Len(s) - Len(sep) + 1) : StartsWithAt(s, i, sep)}
    IN  IF hits = {} THEN <<s>>
        ELSE LET i == CHOOSE h \in hits : \A g \in hits : h <= g
             IN  <<SubSeq(s, 1, i - 1)>>
                 \o Split(SubSeq(s, i + Len(sep), Len(s)), sep)

normalize_credential(value) == Strip(value)

\* the pair of the session if it is complete, else the pair of the auth
\* section of the secrets (username or id, password or pass)
get_configured_auth_credentials ==
    LET session_username == normalize_credential(session_state.auth_username)
        session_password == normalize_credential(session_state.auth_password)
    IN  IF session_username # EMPTY /\ session_password # EMPTY
        THEN <<session_username, session_password>>
        ELSE <<normalize_credential(IF secrets.username # EMPTY
                                    THEN secrets.username ELSE secrets.id),
               normalize_credential(IF secrets.password # EMPTY
                                    THEN secrets.password ELSE secrets.pass)>>

\* what the user types into the ID and PASS fields of the login form and
\* of the settings form
CredentialInputs ==
    {<<EMPTY, EMPTY>>, <<<<"u">>, <<"p">>>>, <<<<" ", "u">>, <<"p">>>>,
     <<<<"u">>, <<"q">>>>, <<<<"v", " ">>, <<"q">>>>, <<<<"v">>, EMPTY>>}

\* the content extract_text gives an image file
IMAGE_FILE_CONTENT ==
    <<"(", "U+753B", "U+50CF", "U+30D5", "U+30A1", "U+30A4", "U+30EB",
      "U+3067", "U+3059", "U+3002", "U+5185", "U+5BB9", "U+306F",
      "U+81EA", "U+52D5", "U+89E3", "U+6790", "U+3055", "U+308C",
      "U+3066", "U+3044", "U+307E", "U+305B", "U+3093", "U+3002",
      "U+5FC5", "U+8981", "U+306B", "U+5FDC", "U+3058", "U+3066",
      "U+6307", "U+793A", "U+6B04", "U+3067", "U+88DC", "U+8DB3",
      "U+3057", "U+3066", "U+304F", "U+3060", "U+3055", "U+3044",
      "U+3002", ")">>

\* the content extract_text_from_pdf gives when pypdf is not installed
PDF_WITHOUT_PYPDF ==
    <<"(", "P", "D", "F", "U+306E", "U+30C6", "U+30AD", "U+30B9",
      "U+30C8", "U+62BD", "U+51FA", "U+306B", "U+5FC5", "U+8981",
      "U+306A", "U+30E9", "U+30A4", "U+30D6", "U+30E9", "U+30EA",
      "U+304C", "U+30A4", "U+30F3", "U+30B9", "U+30C8", "U+30FC",
      "U+30EB", "U+3055", "U+308C", "U+3066", "U+3044", "U+307E",
      "U+305B", "U+3093", ":", " ", "p", "y", "p", "d", "f", ")">>

S_PNG == <<"p", "n", "g">>

\* f"{source_base}_p{page_number}_img{image_index}.{ext}"
pdf_image_filename(source_base, page_number, image_index, ext) ==
    source_base \o <<"_", "p">> \o Decimal(page_number)
    \o <<"_", "i", "m", "g">> \o Decimal(image_index) \o <<".">> \o ext

\* uuid.uuid4().hex of two calls: 32 hexadecimal digits, no two calls the
\* same
UUID_HEX == <<[k \in 1..32 |-> "1"], [k \in 1..32 |-> "2"]>>

\* uploads after extract_text: a text file, an image file with its one
\* image and a PDF without text that has one image on each of its two
\* pages, read with pypdf and, where pypdf is not installed, not read; an
\* image id is f"img_{uuid.uuid4().hex}"
SourceLists ==
    LET image(uuid, filename, source, page) ==
            [id |-> <<"i", "m", "g", "_">> \o uuid, filename |-> filename,
             source |-> source, page |-> page]
        txt == [name |-> <<"b", ".", "t", "x", "t">>, content |-> <<"t">>,
                images |-> <<>>]
        png == [name |-> <<"a", ".">> \o S_PNG, content |-> IMAGE_FILE_CONTENT,
                images |-> <<image(UUID_HEX[1], <<"a", ".">> \o S_PNG,
                                   <<"a", ".">> \o S_PNG, 0)>>]
        pdf == [name |-> <<"c", ".", "p", "d", "f">>, content |-> EMPTY,
                images |-> <<image(UUID_HEX[1],
                                   pdf_image_filename(<<"c">>, 1, 1, S_PNG),
                                   <<"c", ".", "p", "d", "f">>, 1),
                             image(UUID_HEX[2],
                                   pdf_image_filename(<<"c">>, 2, 1, S_PNG),
                                   <<"c", ".", "p", "d", "f">>, 2)>>]
        unread_pdf == [name |-> <<"c", ".", "p", "d", "f">>,
                       content |-> PDF_WITHOUT_PYPDF, images |-> <<>>]
    IN  {<<>>, <<txt>>, <<unread_pdf>>, <<txt, png>>, <<pdf>>}

\* how generate_press_release and parse_model_output end in a run: the
\* call raises, or returns a text and the text is parsed
GenerateOutcomes ==
    {[raised |-> TRUE, parsed |-> Pending]}
    \cup {[raised |-> FALSE, parsed |-> parse_model_output(raw_result, MAIN_FRAMES, FALSE)] :
             raw_result \in
                 {ToJson(GOOD_REPLY),
                  ReplyText(ToJson(WithItem(Candidates("H", REQUIRED_COUNT), 2, JStr(<<" ">>))),
                            ToJson(Candidates("S", REQUIRED_COUNT)),
                            ToJson(JStr(<<"<", "p", ">", "O", "n", "e", "<", "/", "p", ">">>))),
                  NO_TEXT_MESSAGE}}

\* a key that st.session_state does not hold
Missing == <<"missing">>

\* st.session_state.get(key, default)
Get(value, default) == IF value = Missing THEN default ELSE value

\* mutant of MainFlowRuns: the gate lets every run pass
MainFlowRuns_open == TRUE

\* require_login returns and the rest of main runs
MainFlowRuns == session_state.authenticated

Run(event, main, inputs, error, parsed_result, deleted) ==
    [event |-> event, main |-> main, input_username |-> inputs[1],
     input_password |-> inputs[2], error |-> error,
     parsed_result |-> parsed_result, deleted |-> deleted]

\* a run that ends in require_login: without a configured pair it stops,
\* else it shows the form and a submitted matching pair logs in
Login ==
    /\ ~session_state.authenticated
    /\ LET credentials == get_configured_auth_credentials
       IN  IF credentials[1] = EMPTY \/ credentials[2] = EMPTY
           THEN /\ last_run' = Run("login_page", FALSE, <<EMPTY, EMPTY>>,
                                   "no credentials", NoResult, {})
                /\ UNCHANGED session_state
           ELSE \E inputs \in CredentialInputs :
                   /\ session_state' =
                          [session_state EXCEPT !.authenticated =
                               /\ inputs[1] = credentials[1]
                               /\ inputs[2] = credentials[2]]
                   /\ last_run' = Run("login", FALSE, inputs, "none", NoResult, {})
    /\ UNCHANGED <<secrets, request>>
    /\ UNCHANGED <<invoke_vars, parse_vars, plain_vars,
                   fence_in, fence_out, prompt_args, prompt, export_args, exports>>

\* the head of the sidebar, in every run that passes the gate: while the
\* session holds no key, the key of the environment (GOOGLE_API_KEY, else
\* GEMINI_API_KEY) is stored trimmed if it is not empty
EnvironmentKey(state, environment) ==
    LET initial_key == IF environment.google_api_key # EMPTY
                       THEN environment.google_api_key
                       ELSE environment.gemini_api_key
    IN  IF state.gemini_api_key = Missing /\ initial_key # EMPTY
        THEN [state EXCEPT !.gemini_api_key = Strip(initial_key)]
        ELSE state

\* the key field and the clear button of the admin mode: a typed key is
\* stored trimmed, then the button stores the empty key
ApiKeyField(state, api_key_input, clear_api_key) ==
    LET typed == IF api_key_input # EMPTY
                 THEN [state EXCEPT !.gemini_api_key = Strip(api_key_input)]
                 ELSE state
    IN  IF clear_api_key THEN [typed EXCEPT !.gemini_api_key = EMPTY] ELSE typed

\* what the key field of the admin mode can hold
ApiKeyInputs == {EMPTY, <<" ", "a">>}

\* the text of the key field in a run: the field is drawn in admin mode
\* only, and there every run that reaches it reads it
KeyFieldTexts == IF request.admin THEN ApiKeyInputs ELSE {EMPTY}

\* the sidebar of a run: the key of the environment, then the key field
\* and the clear button
Sidebar(state, api_key_input, clear_api_key) ==
    ApiKeyField(EnvironmentKey(state, request), api_key_input, clear_api_key)

\* the selection widgets are drawn: a generation is stored, not finalized
SelectionShown(state) ==
    state.generation # NoResult /\ ~state.selection_finalized

\* the redo button is drawn: finalized, and both selected texts are not
\* blank
RedoOffered(state) ==
    /\ state.generation # NoResult
    /\ state.selection_finalized
    /\ Strip(state.selected_headline) # EMPTY
    /\ Strip(state.selected_subheadline) # EMPTY

\* st.session_state.setdefault of the two choice keys: a missing choice
\* becomes the first candidate
SetDefaultChoices(state) ==
    [state EXCEPT
         !.headline_choice = Get(@, state.generation.headlines[1]),
         !.subheadline_choice = Get(@, state.generation.subheadlines[1])]

\* mutant of RenderSelection: a deselected image keeps its keys
RenderSelection_keeps_keys(state) == SetDefaultChoices(state)

\* the part of the script that draws the selection widgets: the choice
\* keys get their defaults, and the position and the caption of every
\* available image that is not included are popped
RenderSelection(state) ==
    LET chosen == SetDefaultChoices(state)
        popped == {chosen.available_images[k].id :
                       k \in 1..Len(chosen.available_images)}
                  \ chosen.img_include
    IN  [chosen EXCEPT
             !.img_pos = {item \in @ : item[1] \notin popped},
             !.img_caption = {item \in @ : item[1] \notin popped}]

\* the part of the script that draws the finalized view: with both
\* selected texts it pops finalizing_indicator
FinalView(state) ==
    IF RedoOffered(state) THEN [state EXCEPT !.finalizing_indicator = FALSE]
    ELSE state

\* the end of the script from `generation = st.session_state.get(...)`
\* on: nothing without a result, else one of the two views
View(state) ==
    IF state.generation = NoResult THEN state
    ELSE IF state.selection_finalized THEN FinalView(state)
    ELSE RenderSelection(state)

\* a run without a button and with an empty key field, as st.rerun() and
\* any other widget start it; where it leaves the session as it is, it is
\* a stuttering step
Rerun ==
    /\ MainFlowRuns
    /\ session_state' = View(Sidebar(session_state, EMPTY, FALSE))
    /\ session_state' # session_state
    /\ last_run' = Run("rerun", TRUE, <<EMPTY, EMPTY>>, "none", NoResult, {})
    /\ UNCHANGED <<secrets, request>>
    /\ UNCHANGED <<invoke_vars, parse_vars, plain_vars,
                   fence_in, fence_out, prompt_args, prompt, export_args, exports>>

\* the settings form of the admin mode (render_basic_auth_settings):
\* saving or clearing the pair of the session logs the user out, and
\* safe_rerun ends the run before the key field is read
AuthSettings ==
    /\ MainFlowRuns
    /\ request.admin
    /\ \E submitted \in BOOLEAN, inputs \in CredentialInputs :
          /\ submitted \/ inputs = <<EMPTY, EMPTY>>
          /\ session_state' =
                 [EnvironmentKey(session_state, request) EXCEPT
                      !.auth_username = IF submitted
                                        THEN normalize_credential(inputs[1])
                                        ELSE EMPTY,
                      !.auth_password = IF submitted
                                        THEN normalize_credential(inputs[2])
                                        ELSE EMPTY,
                      !.authenticated = FALSE]
          /\ last_run' = Run("auth_settings", TRUE, <<EMPTY, EMPTY>>, "none",
                             NoResult, {})
    /\ UNCHANGED <<secrets, request>>
    /\ UNCHANGED <<invoke_vars, parse_vars, plain_vars,
                   fence_in, fence_out, prompt_args, prompt, export_args, exports>>

\* a run of the admin mode without another button, in which the key field
\* holds a text or the clear button is pressed, then the rest of the script
ApiKeySettings ==
    /\ MainFlowRuns
    /\ request.admin
    /\ \E api_key_input \in KeyFieldTexts, clear_api_key \in BOOLEAN :
          /\ api_key_input # EMPTY \/ clear_api_key
          /\ session_state' =
                 View(Sidebar(session_state, api_key_input, clear_api_key))
    /\ last_run' = Run("api_key", TRUE, <<EMPTY, EMPTY>>, "none", NoResult, {})
    /\ UNCHANGED <<secrets, request>>
    /\ UNCHANGED <<invoke_vars, parse_vars, plain_vars,
                   fence_in, fence_out, prompt_args, prompt, export_args, exports>>

\* mutant of DeleteImageKeys: the include flags are kept
DeleteImageKeys_keeps_include(state) ==
    [state EXCEPT !.img_pos = {}, !.img_caption = {}]

\* the loop of the generate button that deletes every per-image key
DeleteImageKeys(state) ==
    [state EXCEPT !.img_include = {}, !.img_pos = {}, !.img_caption = {}]

\* the generate button, which is enabled with a key (the one the sidebar
\* of the run leaves) and an upload only (the tests of lines 664-669 then
\* pass): the per-image keys are deleted, then the model is called and its
\* reply parsed; a failure ends the run, a result is stored and the
\* selection widgets are drawn
Generate ==
    /\ MainFlowRuns
    /\ request.uploads # <<>>
    /\ \E api_key_input \in KeyFieldTexts, outcome \in GenerateOutcomes :
          LET extracted_sources == request.uploads
              sidebar == Sidebar(session_state, api_key_input, FALSE)
              deleted == session_state.img_include
                         \cup {item[1] : item \in session_state.img_pos}
                         \cup {item[1] : item \in session_state.img_caption}
              cleared == DeleteImageKeys(sidebar)
              parsed_result == outcome.parsed.value
          IN  /\ Get(sidebar.gemini_api_key, EMPTY) # EMPTY
              /\ IF outcome.raised \/ outcome.parsed.kind # "returned"
                 THEN /\ session_state' = cleared
                      /\ last_run' = Run("generate", TRUE, <<EMPTY, EMPTY>>,
                                         IF outcome.raised THEN "invocation"
                                         ELSE outcome.parsed.error,
                                         NoResult, deleted)
                 ELSE /\ session_state' = View(
                            [cleared EXCEPT
                                 !.generation = parsed_result,
                                 !.selection_finalized = FALSE,
                                 !.selected_headline = EMPTY,
                                 !.selected_subheadline = EMPTY,
                                 !.headline_choice = parsed_result.headlines[1],
                                 !.subheadline_choice = parsed_result.subheadlines[1],
                                 !.available_images =
                                     Flatten([k \in 1..Len(extracted_sources) |->
                                                  extracted_sources[k].images]),
                                 !.selected_images_config = <<>>])
                      /\ last_run' = Run("generate", TRUE, <<EMPTY, EMPTY>>, "none",
                                         parsed_result, deleted)
    /\ UNCHANGED <<secrets, request>>
    /\ UNCHANGED <<invoke_vars, parse_vars, plain_vars,
                   fence_in, fence_out, prompt_args, prompt, export_args, exports>>

\* the two selectboxes of the candidates: the chosen values are under the
\* keys of the widgets when the script runs
ChooseCandidates ==
    /\ MainFlowRuns
    /\ SelectionShown(session_state)
    /\ \E api_key_input \in KeyFieldTexts, h \in 1..MaxChoice, sh \in 1..MaxChoice :
          session_state' = View(
              [Sidebar(session_state, api_key_input, FALSE) EXCEPT
                   !.headline_choice = session_state.generation.headlines[h],
                   !.subheadline_choice = session_state.generation.subheadlines[sh]])
    /\ last_run' = Run("select", TRUE, <<EMPTY, EMPTY>>, "none", NoResult, {})
    /\ UNCHANGED <<secrets, request>>
    /\ UNCHANGED <<invoke_vars, parse_vars, plain_vars,
                   fence_in, fence_out, prompt_args, prompt, export_args, exports>>

\* the checkbox of an available image
ToggleImage ==
    /\ MainFlowRuns
    /\ SelectionShown(session_state)
    /\ \E api_key_input \in KeyFieldTexts,
          k \in 1..Len(session_state.available_images) :
          LET image_id == session_state.available_images[k].id
          IN  session_state' = View(
                  [Sidebar(session_state, api_key_input, FALSE) EXCEPT
                       !.img_include = IF image_id \in @ THEN @ \ {image_id}
                                       ELSE @ \cup {image_id}])
    /\ last_run' = Run("select", TRUE, <<EMPTY, EMPTY>>, "none", NoResult, {})
    /\ UNCHANGED <<secrets, request>>
    /\ UNCHANGED <<invoke_vars, parse_vars, plain_vars,
                   fence_in, fence_out, prompt_args, prompt, export_args, exports>>

\* the position selectbox and the caption field of an included image; the
\* positions offered are 0 and the index of every paragraph
PlaceImage ==
    /\ MainFlowRuns
    /\ SelectionShown(session_state)
    /\ \E api_key_input \in KeyFieldTexts,
          k \in 1..Len(session_state.available_images),
          position \in 0..Len(Split(session_state.generation.article, S_NLNL)),
          caption_value \in {<<"c", " ">>} :
          LET image_id == session_state.available_images[k].id
          IN  /\ image_id \in session_state.img_include
              /\ session_state' = View(
                     [Sidebar(session_state, api_key_input, FALSE) EXCEPT
                          !.img_pos = {item \in @ : item[1] # image_id}
                                      \cup {<<image_id, position>>},
                          !.img_caption = {item \in @ : item[1] # image_id}
                                          \cup {<<image_id, caption_value>>}])
    /\ last_run' = Run("select", TRUE, <<EMPTY, EMPTY>>, "none", NoResult, {})
    /\ UNCHANGED <<secrets, request>>
    /\ UNCHANGED <<invoke_vars, parse_vars, plain_vars,
                   fence_in, fence_out, prompt_args, prompt, export_args, exports>>

\* session_state.get(key, default) for the per-image keys
ImageKey(items, image_id, default) ==
    IF \E item \in items : item[1] = image_id
    THEN (CHOOSE item \in items : item[1] = image_id)[2]
    ELSE default

\* the confirm button, which the selection view draws last: the sidebar
\* and the view are drawn, then the values of the two selectboxes become
\* the selection, every included available image gets its entry, and
\* st.rerun() ends the run
ConfirmSelection ==
    /\ MainFlowRuns
    /\ SelectionShown(session_state)
    /\ \E api_key_input \in KeyFieldTexts :
       LET drawn == RenderSelection(Sidebar(session_state, api_key_input, FALSE))
           headline_choice == drawn.headline_choice
           subheadline_choice == drawn.subheadline_choice
           ids == OrderedUnique([k \in 1..Len(drawn.available_images) |->
                                    drawn.available_images[k].id], <<>>)
           included == SelectSeq(ids, LAMBDA image_id :
                                          image_id \in drawn.img_include)
       IN  session_state' =
               [drawn EXCEPT
                    !.selected_headline = headline_choice,
                    !.selected_subheadline = subheadline_choice,
                    !.selected_images_config =
                        [k \in 1..Len(included) |->
                            [image_id |-> included[k],
                             position |-> ImageKey(drawn.img_pos, included[k], 0),
                             caption |-> Strip(ImageKey(drawn.img_caption,
                                                        included[k], EMPTY))]],
                    !.selection_finalized = TRUE,
                    !.finalizing_indicator = TRUE]
    /\ last_run' = Run("confirm", TRUE, <<EMPTY, EMPTY>>, "none", NoResult, {})
    /\ UNCHANGED <<secrets, request>>
    /\ UNCHANGED <<invoke_vars, parse_vars, plain_vars,
                   fence_in, fence_out, prompt_args, prompt, export_args, exports>>

\* the redo button, which the finalized view draws last
ResetSelection ==
    /\ MainFlowRuns
    /\ RedoOffered(session_state)
    /\ \E api_key_input \in KeyFieldTexts :
          session_state' = [FinalView(Sidebar(session_state, api_key_input, FALSE))
                                EXCEPT !.selection_finalized = FALSE]
    /\ last_run' = Run("reset", TRUE, <<EMPTY, EMPTY>>, "none", NoResult, {})
    /\ UNCHANGED <<secrets, request>>
    /\ UNCHANGED <<invoke_vars, parse_vars, plain_vars,
                   fence_in, fence_out, prompt_args, prompt, export_args, exports>>

\* the two environment variables of the key: none, GEMINI_API_KEY alone,
\* or both
Environments ==
    {[google_api_key |-> EMPTY, gemini_api_key |-> EMPTY],
     [google_api_key |-> EMPTY, gemini_api_key |-> <<"k">>],
     [google_api_key |-> <<" ", "g">>, gemini_api_key |-> <<"k">>]}

\* a new session: nothing stored, the auth section of the secrets absent,
\* complete or without a password; the page is opened with the uploads,
\* in admin mode with files without images, and with images where the
\* environment has no key or both
InitSession ==
    /\ session_state =
           [authenticated |-> FALSE, auth_username |-> EMPTY, auth_password |-> EMPTY,
            gemini_api_key |-> Missing, generation |-> NoResult,
            selection_finalized |-> FALSE, finalizing_indicator |-> FALSE,
            selected_headline |-> EMPTY, selected_subheadline |-> EMPTY,
            headline_choice |-> Missing, subheadline_choice |-> Missing,
            available_images |-> <<>>, selected_images_config |-> <<>>,
            img_include |-> {}, img_pos |-> {}, img_caption |-> {}]
    /\ secrets \in
           {[username |-> EMPTY, id |-> EMPTY, password |-> EMPTY, pass |-> EMPTY],
            [username |-> EMPTY, id |-> <<" ", "u">>, password |-> <<"p">>, pass |-> EMPTY],
            [username |-> <<"u">>, id |-> EMPTY, password |-> EMPTY, pass |-> EMPTY]}
    /\ request \in
           {r \in {[admin |-> admin, uploads |-> uploads,
                    google_api_key |-> environment.google_api_key,
                    gemini_api_key |-> environment.gemini_api_key] :
                       admin \in BOOLEAN, uploads \in SourceLists,
                       environment \in Environments} :
                (r.admin \/ (r.google_api_key = EMPTY /\ r.gemini_api_key # EMPTY))
                => \A k \in 1..Len(r.uploads) : r.uploads[k].images = <<>>}
    /\ last_run = Run("none", FALSE, <<EMPTY, EMPTY>>, "none", NoResult, {})
    /\ InvokeIdle
    /\ ParseIdle
    /\ PlainIdle
    /\ AppIdle("session")

NextSession ==
    \/ Login
    \/ Rerun
    \/ AuthSettings
    \/ ApiKeySettings
    \/ Generate
    \/ ChooseCandidates
    \/ ToggleImage
    \/ PlaceImage
    \/ ConfirmSelection
    \/ ResetSelection

SpecSession == InitSession /\ [][NextSession]_vars

(***************************************************************************)
(* Properties of the session                                               *)
(***************************************************************************)
AvailableIds ==
    {session_state.available_images[k].id :
         k \in 1..Len(session_state.available_images)}

\* C12: a generation run that fails leaves the stored result, the finalized
\* flag, the selected headline and subheadline, the available images and
\* the user's inclusion, position and caption of every image as they were.
C12_FailedRunKeepsSession ==
    [][(last_run'.event = "generate" /\ last_run'.error # "none")
       => /\ session_state'.generation = session_state.generation
          /\ session_state'.selection_finalized = session_state.selection_finalized
          /\ session_state'.selected_headline = session_state.selected_headline
          /\ session_state'.selected_subheadline = session_state.selected_subheadline
          /\ session_state'.available_images = session_state.available_images
          /\ session_state'.img_include = session_state.img_include
          /\ session_state'.img_pos = session_state.img_pos
          /\ session_state'.img_caption = session_state.img_caption]_vars

\* C13: the part of the script after the login gate runs only in a run that
\* starts authenticated, and authenticated turns true only in a login whose
\* id and secret are the configured pair, both of them non-empty.
C13_LoginGate ==
    [][/\ last_run'.main => session_state.authenticated
       /\ (~session_state.authenticated /\ session_state'.authenticated)
          => /\ last_run'.event = "login"
             /\ last_run'.input_username # EMPTY
             /\ last_run'.input_password # EMPTY
             /\ <<last_run'.input_username, last_run'.input_password>>
                    = get_configured_auth_credentials]_vars

\* a login with the pair that the settings form stored in the session
C13_Witness ==
    /\ session_state.authenticated
    /\ last_run.event = "login"
    /\ session_state.auth_password = <<"q">>
    /\ last_run.input_password = <<"q">>
    /\ session_state.generation # NoResult

\* C15: after a generation run that succeeds the session holds the new
\* result only: generation is the parsed result, nothing is finalized or
\* selected, the image configuration is empty, both choices are the first
\* candidates, the available images are the images of the current uploads
\* and no inclusion, position or caption of an image is left.
C15_ResultReplaced ==
    (last_run.event = "generate" /\ last_run.error = "none")
    => /\ session_state.generation = last_run.parsed_result
       /\ session_state.generation # NoResult
       /\ ~session_state.selection_finalized
       /\ session_state.selected_headline = EMPTY
       /\ session_state.selected_subheadline = EMPTY
       /\ session_state.selected_images_config = <<>>
       /\ session_state.headline_choice = session_state.generation.headlines[1]
       /\ session_state.subheadline_choice = session_state.generation.subheadlines[1]
       /\ session_state.available_images =
              Flatten([k \in 1..Len(request.uploads) |-> request.uploads[k].images])
       /\ session_state.img_include = {}
       /\ session_state.img_pos = {}
       /\ session_state.img_caption = {}

\* a second generation, made after images were included and placed
C15_Witness ==
    /\ last_run.event = "generate"
    /\ last_run.error = "none"
    /\ last_run.deleted # {}
    /\ Len(session_state.available_images) = 2
    /\ session_state.generation = last_run.parsed_result

\* C17: an available image that is not included has no stored position and
\* no stored caption, and right after the user confirms the image
\* configuration has exactly one entry for every included available image,
\* with its stored position (0 without one) and its stored caption trimmed
\* (empty without one), and no entry for any other image.
C17_DeselectedDiscarded ==
    /\ \A image_id \in AvailableIds \ session_state.img_include :
          /\ ~\E item \in session_state.img_pos : item[1] = image_id
          /\ ~\E item \in session_state.img_caption : item[1] = image_id
    /\ last_run.event = "confirm"
       => LET config == session_state.selected_images_config
          IN  /\ \A image_id \in AvailableIds :
                    Cardinality({k \in DOMAIN config : config[k].image_id = image_id})
                        = IF image_id \in session_state.img_include THEN 1 ELSE 0
              /\ \A k \in DOMAIN config :
                    /\ config[k].image_id \in AvailableIds
                    /\ \/ <<config[k].image_id, config[k].position>> \in session_state.img_pos
                       \/ /\ config[k].position = 0
                          /\ ~\E item \in session_state.img_pos :
                                 item[1] = config[k].image_id
                    /\ \/ \E item \in session_state.img_caption :
                              /\ item[1] = config[k].image_id
                              /\ config[k].caption = Strip(item[2])
                       \/ /\ config[k].caption = EMPTY
                          /\ ~\E item \in session_state.img_caption :
                                 item[1] = config[k].image_id

\* a confirmed selection of two images: one is placed after a paragraph with
\* a caption, the other is not included and has no entry
C17_Witness ==
    /\ last_run.event = "confirm"
    /\ Len(session_state.available_images) = 2
    /\ Len(session_state.selected_images_config) = 1
    /\ session_state.selected_images_config[1].position > 0
    /\ session_state.selected_images_config[1].caption = <<"c">>
    /\ session_state.selected_images_config[1].image_id
           = session_state.available_images[2].id

\* C19: in every finalized state of an authenticated session the redo
\* action can be taken.
C19_RedoAlwaysOffered ==
    (/\ session_state.authenticated
     /\ session_state.generation # NoResult
     /\ session_state.selection_finalized)
    => ENABLED ResetSelection

(***************************************************************************)
(* The two exports of the finalized view                                   *)
(***************************************************************************)
MaxImages == 2
MaxPosition == 4

\* mutant of ClampPosition: the position is used as it is stored
ClampPosition_unclamped(pos, count) == pos

\* max(0, min(pos, len(paragraphs)))
ClampPosition(pos, count) ==
    IF pos < 0 THEN 0 ELSE IF pos > count THEN count ELSE pos

\* text_parts of the finalized view without the parts that are empty (the
\* parts that final_text joins with a blank line), each with the place it
\* was appended at: a paragraph with its index, an image with its number
text_parts(headline, subheadline, article, images) ==
    LET paragraphs == Split(article, S_NLNL)
        numbers == [k \in 1..Len(images) |-> k]
        at(pos) ==
            LET found == SelectSeq(numbers, LAMBDA k :
                             ClampPosition(images[k].position, Len(paragraphs)) = pos)
            IN  [j \in 1..Len(found) |->
                    [kind |-> "image", n |-> found[j],
                     text |-> <<"[", "U+753B", "U+50CF", ":", " ">>
                              \o (IF images[found[j]].caption # EMPTY
                                  THEN images[found[j]].caption
                                  ELSE images[found[j]].filename)
                              \o <<"]">>]]
        parts == <<[kind |-> "headline", n |-> 0, text |-> headline],
                   [kind |-> "subheadline", n |-> 0, text |-> subheadline]>>
                 \o at(0)
                 \o Flatten([idx \in 1..Len(paragraphs) |->
                                <<[kind |-> "paragraph", n |-> idx,
                                   text |-> paragraphs[idx]]>> \o at(idx)])
    IN  SelectSeq(parts, LAMBDA part : part.text # EMPTY)

DocxRaised(error, filename) ==
    [kind |-> "raised", body |-> <<>>, error |-> error, filename |-> filename]
DocxBytes(body) ==
    [kind |-> "returned", body |-> body, error |-> "None", filename |-> EMPTY]

\* create_docx_bytes, python_docx telling whether the import of python-docx
\* succeeded (Document is not None): RuntimeError where it did not and at
\* the first picture that add_picture refuses and Pillow does not convert,
\* else the body of the document it builds, element by element: two
\* headings, then pictures, captions and paragraphs
create_docx_bytes(headline, subheadline, article, images, python_docx) ==
    LET normalized == Join(Split(Join(Split(article, S_CRLF), S_NL), S_CR), S_NL)
        blocks == Split(normalized, S_NLNL)
        paragraphs == [k \in 1..Len(blocks) |-> Strip(blocks[k])]
        numbers == [k \in 1..Len(images) |-> k]
        add_image_to_doc(k) ==
            <<[kind |-> "picture", n |-> k, text |-> images[k].filename]>>
            \o (IF images[k].caption # EMPTY
                THEN <<[kind |-> "caption", n |-> k, text |-> images[k].caption]>>
                ELSE <<>>)
        at(pos) ==
            LET found == SelectSeq(numbers, LAMBDA k :
                             ClampPosition(images[k].position, Len(paragraphs)) = pos)
            IN  Flatten([j \in 1..Len(found) |-> add_image_to_doc(found[j])])
        cleaned_block(block) ==
            Join(Split(Join(Split(block, <<" ", " ", "\n">>), S_SPACE), <<"\t">>),
                 S_SPACE)
        body ==
            <<[kind |-> "heading0", n |-> 0, text |-> headline],
              [kind |-> "heading1", n |-> 0, text |-> subheadline]>>
            \o at(0)
            \o Flatten([index \in 1..Len(paragraphs) |->
                           <<[kind |-> "paragraph", n |-> index,
                              text |-> cleaned_block(paragraphs[index])]>> \o at(index)])
        refused == {j \in 1..Len(body) :
                       body[j].kind = "picture" /\ ~images[body[j].n].readable}
    IN  IF ~python_docx THEN DocxRaised("RuntimeError", EMPTY)
        ELSE IF refused # {}
        THEN DocxRaised("RuntimeError",
                        body[CHOOSE j \in refused : \A i \in refused : j <= i].text)
        ELSE DocxBytes(body)

\* the download of the document that the finalized view offers: none
\* without python-docx, where create_docx_bytes is not called, and none
\* where it raises
docx_download(headline, subheadline, article, images, python_docx) ==
    IF ~python_docx THEN DocxRaised("None", EMPTY)
    ELSE create_docx_bytes(headline, subheadline, article, images, python_docx)

\* the finalized view of one run: final_text and the document are built
\* from the same article and the same resolved images
Export ==
    /\ exports = <<>>
    /\ LET parts == text_parts(export_args.headline, export_args.subheadline,
                               export_args.article, export_args.images)
       IN  exports' = <<[text_parts |-> parts,
                         final_text |-> Join([k \in 1..Len(parts) |-> parts[k].text],
                                             S_NLNL),
                         docx |-> docx_download(export_args.headline,
                                                export_args.subheadline,
                                                export_args.article,
                                                export_args.images,
                                                export_args.python_docx)]>>
    /\ UNCHANGED export_args
    /\ UNCHANGED <<invoke_vars, parse_vars, plain_vars, fence_in, fence_out,
                   prompt_args, prompt, session_state, secrets, request, last_run>>

\* file names of the images of two uploads, an image file and a PDF
IMAGE_FILENAMES ==
    <<<<"a", ".">> \o S_PNG, pdf_image_filename(<<"c">>, 1, 1, S_PNG),
      pdf_image_filename(<<"c">>, 2, 1, S_PNG)>>

\* the article is an article that parse_model_output stores; image k of the
\* resolved images has the k-th file name, any stored position and a
\* caption or none; python-docx is installed or not, and where it is, all
\* images are pictures that the document takes, or all but one
InitExport ==
    /\ export_args \in
           {[headline |-> <<"H">>, subheadline |-> <<"S">>,
             article |-> to_plain_text(raw),
             images |-> [k \in 1..Len(images) |->
                            [filename |-> images[k].filename,
                             position |-> images[k].position,
                             caption |-> images[k].caption,
                             readable |-> k # build[2]]],
             python_docx |-> build[1]] :
                build \in {<<FALSE, 0>>} \cup ({TRUE} \X (0..MaxImages)),
                raw \in {<<"a">>,
                         <<"a", "\n", "\n", "b">>,
                         <<"<", "p", ">", "a", " ", " ", "\n", "b", "\t", "c",
                           "<", "/", "p", ">", "d">>,
                         <<"a", "\n", "\n", " ", "\n", "\n", "b">>,
                         <<"<", "p", ">", "<", "/", "p", ">">>},
                images \in
                    {[k \in 1..Len(placed) |->
                         [filename |-> IMAGE_FILENAMES[k],
                          position |-> placed[k][1], caption |-> placed[k][2]]] :
                        placed \in SeqsUpTo((-1..MaxPosition) \X {EMPTY, <<"c">>},
                                            MaxImages)}}
    /\ exports = <<>>
    /\ InvokeIdle
    /\ ParseIdle
    /\ PlainIdle
    /\ AppIdle("export")

SpecExport == InitExport /\ [][Export]_vars

(***************************************************************************)
(* Properties of the exports                                               *)
(***************************************************************************)
\* the paragraphs and images of final_text, in order
TextBody ==
    SelectSeq(exports[1].text_parts,
              LAMBDA part : part.kind \in {"paragraph", "image"})

\* create_docx_bytes returned the bytes of a document
DocxBuilt == exports # <<>> /\ exports[1].docx.kind = "returned"

\* the paragraphs and pictures of the document, in order
DocxBody ==
    SelectSeq(exports[1].docx.body,
              LAMBDA element : element.kind \in {"paragraph", "picture"})

\* C14: where the document is built, the text export and the document
\* export emit the same ordered sequence of paragraphs and images: place by
\* place the same paragraph of the article or the same image, and a caption
\* of the document follows its picture and is the caption that the text
\* shows for that image.
C14_ExportsAgree ==
    DocxBuilt
    => /\ Len(TextBody) = Len(DocxBody)
       /\ \A k \in 1..Len(TextBody) :
             k <= Len(DocxBody)
             => /\ (TextBody[k].kind = "image") = (DocxBody[k].kind = "picture")
                /\ TextBody[k].n = DocxBody[k].n
       /\ \A j \in 1..Len(exports[1].docx.body) :
             exports[1].docx.body[j].kind = "caption"
             => /\ exports[1].docx.body[j - 1].kind = "picture"
                /\ exports[1].docx.body[j - 1].n = exports[1].docx.body[j].n
                /\ \E k \in 1..Len(TextBody) :
                      /\ TextBody[k].kind = "image"
                      /\ TextBody[k].n = exports[1].docx.body[j].n
                      /\ TextBody[k].text
                             = <<"[", "U+753B", "U+50CF", ":", " ">>
                               \o exports[1].docx.body[j].text \o <<"]">>

\* the paragraphs of the article of the exports
ParagraphCount == Len(Split(export_args.article, S_NLNL))

\* element number k of body is emitted once, after the paragraphs up to
\* pos and before the paragraphs that follow
EmittedOnceAt(body, kind, k, pos) ==
    /\ Cardinality({j \in 1..Len(body) : body[j].kind = kind /\ body[j].n = k}) = 1
    /\ \A j \in 1..Len(body) :
          (body[j].kind = kind /\ body[j].n = k)
          => \A i \in 1..Len(body) :
                body[i].kind = "paragraph"
                => IF i < j THEN body[i].n <= pos ELSE body[i].n > pos

\* C18: in the text export, and in the document export where the document
\* is built, every resolved image is emitted exactly once, at its position
\* clamped to 0..paragraph count: below 0 is 0, above the paragraph count is
\* the paragraph count.
C18_ClampedOnce ==
    exports # <<>>
    => \A k \in 1..Len(export_args.images) :
          LET position == export_args.images[k].position
              clamped == IF position < 0 THEN 0
                         ELSE IF position > ParagraphCount THEN ParagraphCount
                         ELSE position
          IN  /\ EmittedOnceAt(exports[1].text_parts, "image", k, clamped)
              /\ DocxBuilt
                 => EmittedOnceAt(exports[1].docx.body, "picture", k, clamped)

\* two paragraphs, one image stored above the paragraph count and one
\* below 0, in the text and in the document
C18_Witness ==
    /\ DocxBuilt
    /\ ParagraphCount = 2
    /\ Len(export_args.images) = 2
    /\ export_args.images[1].position > ParagraphCount
    /\ export_args.images[2].position < 0
    /\ Len(TextBody) = 4
    /\ Len(DocxBody) = 4

(***************************************************************************)
(* The prompt                                                              *)
(***************************************************************************)
OUTPUT_FORMAT_INSTRUCTIONS ==
    <<"#", " ", "U+51FA", "U+529B", "U+30D5", "U+30A9", "U+30FC", "U+30DE",
      "U+30C3", "U+30C8", "\n", "U+5FC5", "U+305A", " ", "J", "S", "O", "N",
      " ", "U+5F62", "U+5F0F", "U+306E", "U+307F", "U+3067", "U+56DE",
      "U+7B54", "U+3057", "U+3066", "U+304F", "U+3060", "U+3055", "U+3044",
      "U+3002", "U+30B3", "U+30FC", "U+30C9", "U+30D6", "U+30ED", "U+30C3",
      "U+30AF", "U+3084", "U+8FFD", "U+52A0", "U+306E", "U+8AAC", "U+660E",
      "U+6587", "U+306F", "U+4E00", "U+5207", "U+4ED8", "U+3051", "U+306A",
      "U+3044", "U+3067", "U+304F", "U+3060", "U+3055", "U+3044", "U+3002",
      "\n", "U+69CB", "U+9020", "U+306F", "U+6B21", "U+306E", "U+901A",
      "U+308A", "U+3067", "U+3059", "U+3002", "\n", "{", "\n", " ", " ",
      "\"", "h", "e", "a", "d", "l", "i", "n", "e", "s", "\"", ":", " ",
      "[", "\"", "U+898B", "U+51FA", "U+3057", "U+6848", "1", "\"", ",",
      " ", ".", ".", ".", ",", " ", "\"", "U+898B", "U+51FA", "U+3057",
      "U+6848", "1", "0", "\"", "]", ",", "\n", " ", " ", "\"", "s", "u",
      "b", "h", "e", "a", "d", "l", "i", "n", "e", "s", "\"", ":", " ", "[",
      "\"", "U+5C0F", "U+898B", "U+51FA", "U+3057", "U+6848", "1", "\"",
      ",", " ", ".", ".", ".", ",", " ", "\"", "U+5C0F", "U+898B", "U+51FA",
      "U+3057", "U+6848", "1", "0", "\"", "]", ",", "\n", " ", " ", "\"",
      "a", "r", "t", "i", "c", "l", "e", "\"", ":", " ", "\"", "U+672C",
      "U+6587", "U+5168", "U+4F53", "U+FF08", "U+7D14", "U+7C8B", "U+306A",
      "U+30D7", "U+30EC", "U+30FC", "U+30F3", "U+30C6", "U+30AD", "U+30B9",
      "U+30C8", "U+3002", "H", "T", "M", "L", "U+30BF", "U+30B0", "U+3084",
      "M", "a", "r", "k", "d", "o", "w", "n", "U+8A18", "U+6CD5", "U+3092",
      "U+542B", "U+3081", "U+306A", "U+3044", "U+FF09", "\"", "\n", "}",
      "\n", "-", " ", "\"", "h", "e", "a", "d", "l", "i", "n", "e", "s",
      "\"", " ", "U+3068", " ", "\"", "s", "u", "b", "h", "e", "a", "d",
      "l", "i", "n", "e", "s", "\"", " ", "U+306E", "U+914D", "U+5217",
      "U+306F", "U+5FC5", "U+305A", "1", "0", "U+500B", "U+306E", "U+8981",
      "U+7D20", "U+3092", "U+542B", "U+3081", "U+3066", "U+304F", "U+3060",
      "U+3055", "U+3044", "U+3002", "\n", "-", " ", "U+6587", "U+5B57",
      "U+5217", "U+5185", "U+306E", "U+6539", "U+884C", "U+306F", " ", "\n",
      " ", "U+3067", "U+8868", "U+73FE", "U+3057", "U+3001", "U+30C0",
      "U+30D6", "U+30EB", "U+30AF", "U+30A9", "U+30FC", "U+30C8", "U+306F",
      "U+30A8", "U+30B9", "U+30B1", "U+30FC", "U+30D7", "U+3057", "U+3066",
      "U+304F", "U+3060", "U+3055", "U+3044", "U+3002", "\n", "-", " ", "H",
      "T", "M", "L", "U+30BF", "U+30B0", "U+3084", "M", "a", "r", "k", "d",
      "o", "w", "n", "U+8A18", "U+6CD5", "U+3092", "U+542B", "U+3081",
      "U+305A", "U+3001", "U+30D7", "U+30EC", "U+30FC", "U+30F3", "U+30C6",
      "U+30AD", "U+30B9", "U+30C8", "U+306E", "U+307F", "U+3067", "U+8A18",
      "U+8FF0", "U+3057", "U+3066", "U+304F", "U+3060", "U+3055", "U+3044",
      "U+3002", "\n", "-", " ", "J", "S", "O", "N", " ", "U+4EE5", "U+5916",
      "U+306E", "U+6587", "U+5B57", "U+30FB", "U+30B3", "U+30E1", "U+30F3",
      "U+30C8", "U+306F", "U+51FA", "U+529B", "U+3057", "U+306A", "U+3044",
      "U+3067", "U+304F", "U+3060", "U+3055", "U+3044", "U+3002">>

\* mutant of OrPlaceholder: the trimmed text is used even when it is empty
OrPlaceholder_blank(text, placeholder) == Strip(text)

\* text.strip() or placeholder
OrPlaceholder(text, placeholder) ==
    IF Strip(text) # EMPTY THEN Strip(text) ELSE placeholder

\* the lines of the prompt, joined with line feeds and trimmed; a page
\* number is written in decimal
build_prompt(base_prompt, instructions, sources) ==
    LET image_line(image) ==
            <<"-", " ">> \o image.filename
            \o (IF image.page # 0
                THEN <<" ", "(", "U+30DA", "U+30FC", "U+30B8", " ">>
                     \o Decimal(image.page)
                     \o <<")">>
                ELSE <<>>)
        source_lines(source) ==
            <<<<"#", "#", " ">> \o source.name,
              OrPlaceholder(source.content,
                            <<"(", "U+672C", "U+6587", "U+306A", "U+3057",
                              ")">>)>>
            \o (IF source.images # <<>>
                THEN <<<<"#", "#", "#", " ", "U+6DFB", "U+4ED8", "U+753B",
                         "U+50CF", "U+30EA", "U+30B9", "U+30C8">>>>
                     \o [k \in 1..Len(source.images) |-> image_line(source.images[k])]
                ELSE <<>>)
            \o <<EMPTY>>
        prompt_lines ==
            <<Strip(base_prompt), EMPTY,
              <<"#", " ", "U+8FFD", "U+52A0", "U+6307", "U+793A">>,
              OrPlaceholder(instructions,
                            <<"U+7279", "U+5225", "U+306A", "U+8FFD",
                              "U+52A0", "U+6307", "U+793A", "U+306F",
                              "U+3042", "U+308A", "U+307E", "U+305B",
                              "U+3093", "U+3002">>),
              EMPTY>>
            \o (IF sources # <<>>
                THEN <<<<"#", " ", "U+53C2", "U+8003", "U+8CC7", "U+6599">>>>
                     \o Flatten([k \in 1..Len(sources) |-> source_lines(sources[k])])
                ELSE <<<<"(", "U+53C2", "U+8003", "U+8CC7", "U+6599",
                         "U+306F", "U+30A2", "U+30C3", "U+30D7", "U+30ED",
                         "U+30FC", "U+30C9", "U+3055", "U+308C", "U+3066",
                         "U+3044", "U+307E", "U+305B", "U+3093", "U+3002",
                         ")">>>>)
            \o <<<<"U+3053", "U+308C", "U+3089", "U+306E", "U+60C5",
                  "U+5831", "U+3092", "U+3082", "U+3068", "U+306B",
                  "U+3001", "U+30D7", "U+30EC", "U+30B9", "U+30EA",
                  "U+30EA", "U+30FC", "U+30B9", "U+8A18", "U+4E8B",
                  "U+3092", "U+4F5C", "U+6210", "U+3057", "U+3066",
                  "U+304F", "U+3060", "U+3055", "U+3044", "U+3002">>,
                 EMPTY,
                 OUTPUT_FORMAT_INSTRUCTIONS>>
    IN  Strip(Join(prompt_lines, S_NL))

BuildPrompt ==
    /\ prompt = <<>>
    /\ prompt' = <<build_prompt(prompt_args.base_prompt, prompt_args.instructions,
                                prompt_args.sources)>>
    /\ UNCHANGED prompt_args
    /\ UNCHANGED <<invoke_vars, parse_vars, plain_vars, fence_in, fence_out,
                   export_args, exports, session_state, secrets, request, last_run>>

\* the base prompt and the instructions are what the user typed, the
\* sources are the uploads or one file whose text is blank
InitPrompt ==
    /\ prompt_args \in
           [base_prompt : {EMPTY, <<"B">>, <<" ", "B", "\n">>},
            instructions : {EMPTY, <<" ">>, <<"\n", "\t">>, <<"U+3000">>, <<"i">>,
                            <<" ", "i", "\n", "j", " ">>},
            sources : SourceLists
                      \cup {<<[name |-> <<"w", ".", "t", "x", "t">>, content |-> <<" ", "\n">>,
                               images |-> <<>>]>>}]
    /\ prompt = <<>>
    /\ InvokeIdle
    /\ ParseIdle
    /\ PlainIdle
    /\ AppIdle("prompt")

SpecPrompt == InitPrompt /\ [][BuildPrompt]_vars

Contains(s, part) == \E i \in 1..Len(s) : StartsWithAt(s, i, part)

\* C16: the prompt has no empty section: blank instructions give the line
\* that says there are no special instructions, right under the header of
\* the additional instructions; no sources give the line that says no
\* reference material was uploaded; a source whose content is blank gets
\* the line that says it has no body under its header; and no header line
\* is followed by an empty line.
C16_NoEmptySection ==
    prompt # <<>>
    => LET lines == Split(prompt[1], S_NL)
       IN  /\ Strip(prompt_args.instructions) = EMPTY
              => Contains(prompt[1],
                     <<"#", " ", "U+8FFD", "U+52A0", "U+6307", "U+793A">>
                     \o S_NL
                     \o <<"U+7279", "U+5225", "U+306A", "U+8FFD", "U+52A0",
                          "U+6307", "U+793A", "U+306F", "U+3042", "U+308A",
                          "U+307E", "U+305B", "U+3093", "U+3002">>
                     \o S_NL)
           /\ prompt_args.sources = <<>>
              => \E j \in 1..Len(lines) :
                    lines[j] = <<"(", "U+53C2", "U+8003", "U+8CC7",
                                 "U+6599", "U+306F", "U+30A2", "U+30C3",
                                 "U+30D7", "U+30ED", "U+30FC", "U+30C9",
                                 "U+3055", "U+308C", "U+3066", "U+3044",
                                 "U+307E", "U+305B", "U+3093", "U+3002",
                                 ")">>
           /\ \A k \in 1..Len(prompt_args.sources) :
                 Strip(prompt_args.sources[k].content) = EMPTY
                 => Contains(prompt[1],
                        <<"#", "#", " ">> \o prompt_args.sources[k].name \o S_NL
                        \o <<"(", "U+672C", "U+6587", "U+306A", "U+3057",
                             ")">>
                        \o S_NL)
           /\ \A j \in 1..Len(lines) :
                 (lines[j] # EMPTY /\ lines[j][1] = "#")
                 => j < Len(lines) /\ lines[j + 1] # EMPTY

\* blank instructions that are not empty and no sources
C16_Witness ==
    /\ prompt # <<>>
    /\ prompt_args.instructions = <<"\n", "\t">>
    /\ prompt_args.sources = <<>>
    /\ prompt_args.base_prompt = EMPTY

====
